---- MODULE Spec2Model ----
(***************************************************************************)
(* Model of the stage-graph workflow of crewai-service/graph.py            *)
(* (SoftwareCompanyGraph): the stages, the two routers, the review gates   *)
(* with their circuit breaker, and the executor's iteration cap; of the    *)
(* extraction of the file plan from a completion at its three sites        *)
(* (graph.py, crew.py, agents.py); and of the sandbox session of           *)
(* QAEngineerAgent (agents.py).                                            *)
(*                                                                         *)
(* Text is modelled as a sequence of one-character strings, so that the    *)
(* substring tests, upper/lower-casing, replace and strip of the code are  *)
(* computed and not assumed.                                               *)
(***************************************************************************)
EXTENDS Integers, Sequences, FiniteSets, TLC

VARIABLES
    pc,                 \* the stage the executor runs next, "END" or "recursion_error"
    steps,              \* stage executions so far in this run
    file_structure,     \* ProjectState.file_structure
    generated_files,    \* ProjectState.generated_files
    current_file_index, \* ProjectState.current_file_index (0-based)
    review_feedback,    \* ProjectState.review_feedback: path -> text
    retry_count,        \* ProjectState.retry_count
    status,             \* ProjectState.status
    architecture,       \* ProjectState.architecture
    last_log,           \* the last line passed to self.log: [kind, path]
    prompt,             \* the generation prompt sent by the stage that ran last, NoPrompt if it sent none
    response,           \* the gateway's answer to the generation stage or review gate that ran last,
                        \* NoResponse if that stage asked nothing of it (or is not observed)
    rejections,         \* rejection log lines for the current file since current_file_index last changed
    route,              \* the label last returned by _route_development
    \* the extraction of a file plan on its own
    site,               \* the plan-parsing site that is applied
    completion,         \* the completion text handed to it
    parsed,             \* what the site returned: [done, raised, plan]
    \* QAEngineerAgent.validate_and_test
    qa_pc,              \* where the call stands: "start", "staging", "test", "fix", "cleanup",
                        \* "returned", "raised" ("idle": no session)
    code_files,         \* state["code_files"], the files handed to the call
    project_type,       \* what _detect_project_type made of them
    temp_dir,           \* the directory of tempfile.mkdtemp: "none", "exists", "removed"
    disk,               \* the files written by the session: path as given -> content
    current_files,      \* the dict of _test_and_fix_project, in insertion order
    test_results,       \* the TestAttempt history
    attempt,            \* the loop variable of _test_and_fix_project (0-based)
    error_msg,          \* the error text of the failed attempt
    files_to_fix,       \* the candidates still to be patched after that attempt
    patch_requests,     \* _fix_code calls made so far
    tested,             \* the content of disk when the last test ran
    outcome,            \* what the try block ended with: the value to return, or an exception
    rmtree,             \* shutil.rmtree in the finally block: "not_called", "ok", "failed"
    executed,           \* the processes the last test ran and how each ended
    patch_reply         \* the gateway's answer to the last patch request

workflowVars == <<pc, steps, file_structure, generated_files, current_file_index,
                  review_feedback, retry_count, status, architecture, last_log,
                  prompt, response, rejections, route>>
parserVars == <<site, completion, parsed>>
sandboxVars == <<qa_pc, code_files, project_type, temp_dir, disk, current_files,
                 test_results, attempt, error_msg, files_to_fix, patch_requests,
                 tested, outcome, rmtree, executed, patch_reply>>
besidesWorkflow == <<parserVars, sandboxVars>>

vars == <<workflowVars, parserVars, sandboxVars>>

----------------------------------------------------------------------------
(* Bounds of the model *)

\* longest file plan the architect's response is drawn from
MaxFiles == 2

\* longest file plan of the runs in which every gate approves
MaxPlanLength == 32

\* the rejection observer stops counting here (it only has to tell <= 3 from > 3)
MaxRejectionsTracked == 4

(* Program constants *)

\* graph.invoke(state, {"recursion_limit": 100})
RecursionLimit == 100

\* "if retry_count >= 3" in both gates
MAX_RETRIES == 3

\* QAEngineerAgent.MAX_FIX_ATTEMPTS
MAX_FIX_ATTEMPTS == 3

\* files_to_fix[:2]
MaxFixesPerAttempt == 2

----------------------------------------------------------------------------
(* Text helpers: str.upper, str.lower, "in", str.replace, str.strip *)

LowerChars == <<"a","b","c","d","e","f","g","h","i","j","k","l","m",
                "n","o","p","q","r","s","t","u","v","w","x","y","z">>
UpperChars == <<"A","B","C","D","E","F","G","H","I","J","K","L","M",
                "N","O","P","Q","R","S","T","U","V","W","X","Y","Z">>

UpperChar(c) ==
    IF \E i \in 1..26 : LowerChars[i] = c
    THEN UpperChars[CHOOSE i \in 1..26 : LowerChars[i] = c]
    ELSE c

LowerChar(c) ==
    IF \E i \in 1..26 : UpperChars[i] = c
    THEN LowerChars[CHOOSE i \in 1..26 : UpperChars[i] = c]
    ELSE c

Upper(s) == [i \in 1..Len(s) |-> UpperChar(s[i])]
Lower(s) == [i \in 1..Len(s) |-> LowerChar(s[i])]

\* Python's  sub in s
Contains(sub, s) ==
    \E i \in 1..(Len(s) - Len(sub) + 1) : SubSeq(s, i, i + Len(sub) - 1) = sub

\* Python's  s.replace(old, "")  for a non-empty old: leftmost, non-overlapping
RECURSIVE Remove(_, _)
Remove(s, old) ==
    IF Len(s) < Len(old) THEN s
    ELSE IF SubSeq(s, 1, Len(old)) = old
         THEN Remove(SubSeq(s, Len(old) + 1, Len(s)), old)
         ELSE <<s[1]>> \o Remove(Tail(s), old)

IsSpace(c) == c \in {" ", "\n", "\t"}

RECURSIVE LStrip(_)
LStrip(s) == IF s # <<>> /\ IsSpace(s[1]) THEN LStrip(Tail(s)) ELSE s

RECURSIVE RStrip(_)
RStrip(s) ==
    IF s # <<>> /\ IsSpace(s[Len(s)]) THEN RStrip(SubSeq(s, 1, Len(s) - 1)) ELSE s

Strip(s) == LStrip(RStrip(s))

\* truthiness of a Python str
Truthy(s) == Len(s) > 0

----------------------------------------------------------------------------
(* Literals of the source *)

S_APPROVED == <<"A","P","P","R","O","V","E","D">>
S_REJECTED == <<"R","E","J","E","C","T","E","D">>
S_REJECTED_COLON == S_REJECTED \o <<":">>
S_frontend == <<"f","r","o","n","t","e","n","d">>
S_backend  == <<"b","a","c","k","e","n","d">>

\* ['.html', '.css', '.js', '.tsx']
FrontendMarkers ==
    { <<".","h","t","m","l">>, <<".","c","s","s">>, <<".","j","s">>, <<".","t","s","x">> }

\* texts of the sandbox session (agents.py)
S_npm_install_failed == <<"n","p","m"," ","i","n","s","t","a","l","l"," ","f","a","i","l","e","d",":"," ">>
S_npm_install_timed_out == <<"n","p","m"," ","i","n","s","t","a","l","l"," ","t","i","m","e","d"," ","o","u","t">>
S_npm_install_error == <<"n","p","m"," ","i","n","s","t","a","l","l"," ","e","r","r","o","r",":"," ">>
S_npm_start_error == <<"n","p","m"," ","s","t","a","r","t"," ","e","r","r","o","r",":"," ">>
S_Started_successfully == <<"S","t","a","r","t","e","d"," ","s","u","c","c","e","s","s","f","u","l","l","y">>
S_Server_started_and_running == <<"S","e","r","v","e","r"," ","s","t","a","r","t","e","d"," ","a","n","d"," ","r","u","n","n","i","n","g">>
S_No_Python_entry_point_found == <<"N","o"," ","P","y","t","h","o","n"," ","e","n","t","r","y"," ","p","o","i","n","t"," ","f","o","u","n","d">>
S_Script_running == <<"S","c","r","i","p","t"," ","r","u","n","n","i","n","g"," ","(","s","e","r","v","e","r"," ","m","o","d","e",")">>
S_No_executable_test_available == <<"N","o"," ","e","x","e","c","u","t","a","b","l","e"," ","t","e","s","t"," ","a","v","a","i","l","a","b","l","e">>
S_boom == <<"b","o","o","m">>
S_at == <<"a","t"," ">>
S_dot_py == <<".","p","y">>
S_dot_html == <<".","h","t","m","l">>

DesignFixPrefix == <<"Design Audit Fix: ">>
QAFixPrefix     == <<"QA Fix: ">>
ErrorCode       == "// Error generating code"

----------------------------------------------------------------------------
(* Inputs: paths, plan entries, plans, gateway responses *)

P_index_html == <<"i","n","d","e","x",".","h","t","m","l">>
P_a_html     == <<"a",".","h","t","m","l">>
P_api_py     == <<"a","p","i",".","p","y">>
P_data_json  == <<"d","a","t","a",".","j","s","o","n">>
P_s_css      == <<"s",".","c","s","s">>
P_app_js     == <<"a","p","p",".","j","s">>
P_x_tsx      == <<"x",".","t","s","x">>
P_README_md  == <<"R","E","A","D","M","E",".","m","d">>
P_package_json == <<"p","a","c","k","a","g","e",".","j","s","o","n">>
P_index_js   == <<"i","n","d","e","x",".","j","s">>
P_main_py    == <<"m","a","i","n",".","p","y">>
P_util_py    == <<"u","t","i","l",".","p","y">>
P_app_py     == <<"a","p","p",".","p","y">>
P_run_py     == <<"r","u","n",".","p","y">>
P_server_py  == <<"s","e","r","v","e","r",".","p","y">>
P_dunder_main_py == <<"_","_","m","a","i","n","_","_",".","p","y">>
P_src_app_py == <<"s","r","c","/","a","p","p",".","p","y">>
P_requirements_txt == <<"r","e","q","u","i","r","e","m","e","n","t","s",".","t","x","t">>
P_notes_txt  == <<"n","o","t","e","s",".","t","x","t">>
P_styles_css == <<"s","t","y","l","e","s",".","c","s","s">>
P_script_js  == <<"s","c","r","i","p","t",".","j","s">>
P_opt_a_py   == <<"/","o","p","t","/","a",".","p","y">>           \* an absolute path
P_up_py      == <<".",".","/","u","p",".","p","y">>               \* a path that starts with ..

\* a plan entry; has_owner = FALSE is a dict without the "owner" key
Entry(path, has_owner, owner) == [path |-> path, has_owner |-> has_owner, owner |-> owner]

\* [{"path":"README.md","owner":"backend"}]
FallbackPlan == << Entry(P_README_md, TRUE, S_backend) >>

\* entries of the plans the workflow is run on
WorkflowEntries ==
    { Entry(P_index_html, TRUE, S_frontend),
      Entry(P_api_py, FALSE, <<>>),
      Entry(P_README_md, TRUE, S_backend) }

\* entries the router is applied to
RouterEntries ==
    WorkflowEntries \cup
    { Entry(P_a_html, TRUE, S_backend),
      Entry(P_a_html, FALSE, <<>>),
      Entry(P_api_py, TRUE, <<"F">> \o Tail(S_frontend)),
      Entry(P_api_py, TRUE, S_backend),
      Entry(P_data_json, FALSE, <<>>),
      Entry(P_s_css, FALSE, <<>>),
      Entry(P_app_js, FALSE, <<>>),
      Entry(P_x_tsx, FALSE, <<>>) }

PlansOver(E) == UNION { [1..n -> E] : n \in 0..MaxFiles }

\* what the gateway can answer to a review prompt (before .strip())
ReviewTexts ==
    { S_APPROVED,                                    \* "APPROVED"
      Lower(S_APPROVED),                             \* "approved"
      S_REJECTED_COLON \o <<" ", "o", "k">>,         \* "REJECTED: ok"
      <<>>,                                          \* ""
      <<"o", "k">>,                                  \* "ok"
      S_APPROVED \o <<" ">> \o Lower(S_REJECTED) }   \* "APPROVED rejected"

\* self.llm.invoke(prompt): a response with .content, or an exception
Raised == [raised |-> TRUE, content |-> <<>>]
Answer(text) == [raised |-> FALSE, content |-> text]
ReviewResponses == {Raised} \cup { Answer(t) : t \in ReviewTexts }
NoResponse == [raised |-> FALSE, content |-> <<"-">>]

\* what the gateway can answer to a generation prompt (after _clean_code)
CodeResponses == {Raised, Answer("code")}

\* A completion that carries a file plan is modelled as a sequence of JSON
\* tokens: brackets, braces, commas, the key "files", the markdown fences
\* ("fence_json" for ```json, "fence" for ```), a word of prose, and one token
\* for each file object.
NoEntry == Entry(<<>>, FALSE, <<>>)
Tok(kind) == [kind |-> kind, entry |-> NoEntry]
FileObject(entry) == [kind |-> "file", entry |-> entry]

RECURSIVE Joined(_)
\* the file objects of a plan, separated by commas
Joined(plan) ==
    IF plan = <<>> THEN <<>>
    ELSE IF Len(plan) = 1 THEN << FileObject(plan[1]) >>
    ELSE << FileObject(plan[1]), Tok(",") >> \o Joined(Tail(plan))

\* [ {..}, {..} ]
ArrayText(plan) == << Tok("[") >> \o Joined(plan) \o << Tok("]") >>
\* { "files": [ {..}, {..} ] }
ObjectText(plan) == << Tok("{"), Tok("files:") >> \o ArrayText(plan) \o << Tok("}") >>
\* Sure: ```json .. ```
Fenced(text) == << Tok("word"), Tok("fence_json") >> \o text \o << Tok("fence") >>

OnePlan == << Entry(P_api_py, FALSE, <<>>) >>
TwoPlan == << Entry(P_index_html, TRUE, S_frontend), Entry(P_api_py, FALSE, <<>>) >>

\* what the gateway can answer to a planning prompt
CompletionTexts ==
    { ArrayText(p) : p \in PlansOver(WorkflowEntries) }                  \* "[]" is one of them
    \cup { ObjectText(p) : p \in {<<>>, OnePlan, TwoPlan} }
    \cup { << Tok("word") >>,                                           \* prose, no array
           << Tok("[") , FileObject(OnePlan[1]) >>,                     \* an array that is never closed
           << Tok("[") , FileObject(TwoPlan[1]), FileObject(TwoPlan[2]), Tok("]") >>,  \* comma missing
           ArrayText(OnePlan) \o << Tok("word") >> \o ArrayText(OnePlan), \* two arrays
           << Tok("{"), Tok("}") >>,                                    \* {}
           Fenced(ArrayText(TwoPlan)),
           Fenced(ObjectText(OnePlan)) }

\* the architect's response: a completion, or the gateway call raised
PlanResponses == {Raised} \cup { Answer(t) : t \in CompletionTexts }

----------------------------------------------------------------------------
(* dict helpers *)

EmptyDict == <<>>
Get(d, k) == IF k \in DOMAIN d THEN d[k] ELSE <<>>          \* d.get(k): None is falsy
\* mutant: the gate forgets to delete the feedback of the approved file
Del_keeps(d, k) == d

Del(d, k) == [x \in (DOMAIN d) \ {k} |-> d[x]]              \* if k in d: del d[k]
\* mutant: the assignment to the key is lost
Put_forgets(d, k, v) == d

\* d[k] = v
Put(d, k, v) == [x \in (DOMAIN d) \cup {k} |-> IF x = k THEN v ELSE d[x]]

----------------------------------------------------------------------------
(* Routers *)

\* file_info.get("owner", "backend").lower()
OwnerOf(entry) == Lower(IF entry.has_owner THEN entry.owner ELSE S_backend)

\* mutant: the path is looked at only when no owner is declared
IsFrontend_ownerWins(entry) ==
    IF entry.has_owner
    THEN Contains(S_frontend, OwnerOf(entry))
    ELSE \E x \in FrontendMarkers : Contains(x, entry.path)

\* "frontend" in owner or any(x in path for x in ['.html','.css','.js','.tsx'])
IsFrontend(entry) ==
    \/ Contains(S_frontend, OwnerOf(entry))
    \/ \E x \in FrontendMarkers : Contains(x, entry.path)

\* mutant: the router is done one file early
RouteDevelopment_offByOne(fs, idx, fb) ==
    IF idx + 1 >= Len(fs) THEN "done"
    ELSE IF IsFrontend(fs[idx + 1]) THEN "frontend" ELSE "backend"

\* _route_development: both branches (feedback pending or not) compute the same test
RouteDevelopment(fs, idx, fb) ==
    IF idx >= Len(fs) THEN "done"
    ELSE IF Truthy(Get(fb, fs[idx + 1].path))
         THEN (IF IsFrontend(fs[idx + 1]) THEN "frontend" ELSE "backend")
         ELSE (IF IsFrontend(fs[idx + 1]) THEN "frontend" ELSE "backend")

\* mutant: the label "done" is wired to the backend specialist
DevelopmentTarget_noExit(label) ==
    CASE label = "frontend" -> "frontend_dev"
      [] label = "backend"  -> "backend_dev"
      [] label = "done"     -> "backend_dev"

\* the conditional edges of define_ux and review_code
DevelopmentTarget(label) ==
    CASE label = "frontend" -> "frontend_dev"
      [] label = "backend"  -> "backend_dev"
      [] label = "done"     -> "create_deployment"

\* mutant: the verdict router ignores pending feedback
HandleDesignReview_approves(fs, idx, fb) == "approved"

\* _handle_design_review
HandleDesignReview(fs, idx, fb) ==
    IF Truthy(Get(fb, fs[idx + 1].path)) THEN "rejected" ELSE "approved"

\* the conditional edges of review_design
DesignTarget(label) ==
    CASE label = "approved" -> "review_code"
      [] label = "rejected" -> "frontend_dev"

\* mutant: the backend specialist's files go through the design gate too
Edge_backendThroughDesign(stage) ==
    CASE stage = "analyze_requirements" -> "plan_architecture"
      [] stage = "plan_architecture"    -> "define_ux"
      [] stage = "frontend_dev"         -> "review_design"
      [] stage = "backend_dev"          -> "review_design"
      [] stage = "create_deployment"    -> "write_docs"
      [] stage = "write_docs"           -> "finalize"
      [] stage = "finalize"             -> "END"

\* mutant: finalize is wired back to write_docs
Edge_finalizeLoops(stage) ==
    CASE stage = "analyze_requirements" -> "plan_architecture"
      [] stage = "plan_architecture"    -> "define_ux"
      [] stage = "frontend_dev"         -> "review_design"
      [] stage = "backend_dev"          -> "review_code"
      [] stage = "create_deployment"    -> "write_docs"
      [] stage = "write_docs"           -> "finalize"
      [] stage = "finalize"             -> "write_docs"

\* the unconditional edges of the graph (workflow.add_edge)
Edge(stage) ==
    CASE stage = "analyze_requirements" -> "plan_architecture"
      [] stage = "plan_architecture"    -> "define_ux"
      [] stage = "frontend_dev"         -> "review_design"
      [] stage = "backend_dev"          -> "review_code"
      [] stage = "create_deployment"    -> "write_docs"
      [] stage = "write_docs"           -> "finalize"
      [] stage = "finalize"             -> "END"

----------------------------------------------------------------------------
(* Review verdict *)

\* mutant: a failed gateway call leaves the gate without a verdict text
ReviewOf_failClosed(resp) == IF resp.raised THEN <<>> ELSE Strip(resp.content)

\* try: review = invoke(prompt).content.strip()   except: review = "APPROVED"
ReviewOf(resp) == IF resp.raised THEN S_APPROVED ELSE Strip(resp.content)

\* mutant: a verdict passes unless it says REJECTED
IsApproved_unlessRejected(text) == ~Contains(S_REJECTED, Upper(text))

\* "APPROVED" in review.upper() and "REJECTED" not in review.upper()
IsApproved(text) ==
    Contains(S_APPROVED, Upper(text)) /\ ~Contains(S_REJECTED, Upper(text))

\* review.replace("REJECTED:", "").strip()
ReasonOf(text) == Strip(Remove(text, S_REJECTED_COLON))

\* what a gate makes of each response: the verdict and, for a rejection, the reason
GateOutcomes ==
    { [resp |-> r, approved |-> IsApproved(ReviewOf(r)), reason |-> ReasonOf(ReviewOf(r))] :
        r \in ReviewResponses }

\* mutant: the breaker trips one retry later
BreakerTripped_late(rc) == rc >= MAX_RETRIES + 1

\* the circuit breaker's test of both gates
BreakerTripped(rc) == rc >= MAX_RETRIES

----------------------------------------------------------------------------
(* Extraction of the file plan from a completion *)

\* positions of the tokens of one kind
Positions(text, kind) == { i \in 1..Len(text) : text[i].kind = kind }
Min(S) == CHOOSE x \in S : \A y \in S : x <= y
Max(S) == CHOOSE x \in S : \A y \in S : x >= y

\* re.search(r'\[[\s\S]*\]', text): from the first "[" to the last "]" after it
HasMatch(text) ==
    /\ Positions(text, "[") # {}
    /\ \E j \in Positions(text, "]") : j > Min(Positions(text, "["))
MatchGroup(text) == SubSeq(text, Min(Positions(text, "[")), Max(Positions(text, "]")))

\* the tokens form "[" file ("," file)* "]" or "[" "]"
IsArray(t) ==
    /\ Len(t) >= 2
    /\ t[1].kind = "[" /\ t[Len(t)].kind = "]"
    /\ Len(t) = 2 \/ (Len(t) - 2) % 2 = 1
    /\ \A i \in 2..(Len(t) - 1) : t[i].kind = (IF i % 2 = 0 THEN "file" ELSE ",")
ArrayItems(t) == [k \in 1..((Len(t) - 1) \div 2) |-> t[2 * k].entry]

\* json.loads, for texts that nest no deeper than an object holding an array
\* of file objects: the value, or ok = FALSE for json.JSONDecodeError
JsonLoads(t) ==
    IF IsArray(t)
    THEN [ok |-> TRUE, type |-> "list", has_files |-> FALSE, items |-> ArrayItems(t)]
    ELSE IF Len(t) = 2 /\ t[1].kind = "{" /\ t[2].kind = "}"
    THEN [ok |-> TRUE, type |-> "dict", has_files |-> FALSE, items |-> <<>>]
    ELSE IF /\ Len(t) >= 5
            /\ t[1].kind = "{" /\ t[2].kind = "files:" /\ t[Len(t)].kind = "}"
            /\ IsArray(SubSeq(t, 3, Len(t) - 1))
    THEN [ok |-> TRUE, type |-> "dict", has_files |-> TRUE,
          items |-> ArrayItems(SubSeq(t, 3, Len(t) - 1))]
    ELSE [ok |-> FALSE, type |-> "none", has_files |-> FALSE, items |-> <<>>]

Returned(plan) == [done |-> TRUE, raised |-> FALSE, plan |-> plan]
NotParsed == [done |-> FALSE, raised |-> FALSE, plan |-> <<>>]

\* crew.py: index.html, styles.css, script.js
CrewDefaultPlan ==
    << Entry(P_index_html, FALSE, <<>>), Entry(P_styles_css, FALSE, <<>>),
       Entry(P_script_js, FALSE, <<>>) >>

\* agents.py: [{"path": "README.md", "purpose": "Documentation"}]
TechLeadDefaultPlan == << Entry(P_README_md, FALSE, <<>>) >>

\* mutant: the crew's parser gives up with an empty plan
ParseFileStructure_emptyOnFailure(text) ==
    IF HasMatch(text) /\ JsonLoads(MatchGroup(text)).ok
    THEN Returned(JsonLoads(MatchGroup(text)).items)
    ELSE Returned(<<>>)

\* SoftwareCompanyCrew._parse_file_structure
ParseFileStructure(text) ==
    IF HasMatch(text) /\ JsonLoads(MatchGroup(text)).ok
    THEN Returned(JsonLoads(MatchGroup(text)).items)
    ELSE Returned(CrewDefaultPlan)            \* no match, or JSONDecodeError caught

\* _plan_architecture: the try block from the response on, and its bare except
PlanOfResponse(resp) ==
    IF resp.raised THEN Returned(FallbackPlan)
    ELSE IF ~HasMatch(resp.content) THEN Returned(FallbackPlan)
    ELSE IF JsonLoads(MatchGroup(resp.content)).ok
    THEN Returned(JsonLoads(MatchGroup(resp.content)).items)
    ELSE Returned(FallbackPlan)
\* the except branch of _plan_architecture was taken
PlanExcepted(resp) ==
    resp.raised \/ (HasMatch(resp.content) /\ ~JsonLoads(MatchGroup(resp.content)).ok)

\* response.replace("```json", "").replace("```", "")
Cleaned(text) == SelectSeq(text, LAMBDA t : t.kind \notin {"fence_json", "fence"})

\* TechLeadAgent.breakdown_tasks from the response on: a list has no .get
\* (AttributeError), and that and a parse error give the default
BreakdownTasks(text) ==
    LET data == JsonLoads(Cleaned(text)) IN
    IF data.ok /\ data.type = "dict"
    THEN Returned(IF data.has_files THEN data.items ELSE <<>>)
    ELSE Returned(TechLeadDefaultPlan)

ParserIdle ==
    /\ site = "none"
    /\ completion = <<>>
    /\ parsed = NotParsed

----------------------------------------------------------------------------
(* Sandbox session: the pure parts of QAEngineerAgent *)

File(path, content) == [path |-> path, content |-> content]

\* the lists of files validate_and_test is called on
SandboxInputs ==
    { << File(P_package_json, "c1"), File(P_index_js, "c2") >>,
      << File(P_main_py, "c1"), File(P_util_py, "c2") >>,
      << File(P_src_app_py, "c1") >>,
      << File(P_index_html, "c1") >>,
      << File(P_notes_txt, "c1") >>,
      << File(P_main_py, "c1"), File(P_main_py, "c2") >>,      \* one path planned twice
      << File(P_app_py, "c1"), File(P_requirements_txt, "c2") >>,
      << File(P_index_html, "c1"), File(P_app_py, "c2"), File(P_package_json, "c3") >>,
      << File(P_index_html, "c1"), File(P_main_py, "c2") >>,
      << File(P_util_py, "c1") >>,                 \* a script that is no conventional entry point
      << File(P_main_py, "c1"), File(P_opt_a_py, "c2") >>,
      << File(P_up_py, "c1") >>,
      << >> }

\* what a process can print
ProcessTexts ==
    { <<>>, S_boom, S_at \o P_index_js, S_at \o P_util_py,
      S_at \o P_util_py \o <<" ">> \o P_main_py, S_at \o P_opt_a_py }

\* what the gateway can answer to a patch request
PatchTexts == { "patched" }

\* str.endswith
EndsWith(s, suffix) ==
    Len(s) >= Len(suffix) /\ SubSeq(s, Len(s) - Len(suffix) + 1, Len(s)) = suffix

Paths(files) == [i \in 1..Len(files) |-> files[i].path]
PathSet(files) == { files[i].path : i \in 1..Len(files) }

\* mutant: a script file is looked for before the manifest
DetectProjectType_scriptFirst(files) ==
    IF \E q \in PathSet(files) : EndsWith(q, S_dot_py) THEN "python"
    ELSE IF \E q \in PathSet(files) : Contains(P_package_json, q) THEN "node"
    ELSE IF \E q \in PathSet(files) : EndsWith(q, S_dot_html) THEN "html"
    ELSE "unknown"

\* _detect_project_type
DetectProjectType(files) ==
    IF \E q \in PathSet(files) : Contains(P_package_json, q) THEN "node"
    ELSE IF \E q \in PathSet(files) : EndsWith(q, S_dot_py) THEN "python"
    ELSE IF \E q \in PathSet(files) : EndsWith(q, S_dot_html) THEN "html"
    ELSE "unknown"

\* mutant: the patched file is stored under another name
SetItem_renames(d, path, content) ==
    [i \in 1..Len(d) |-> IF d[i].path = path THEN File(path \o <<"~">>, content) ELSE d[i]]

\* mutant: a path that is already a key keeps its first content
SetItem_keepsFirst(d, path, content) ==
    IF \E i \in 1..Len(d) : d[i].path = path
    THEN d
    ELSE Append(d, File(path, content))

\* d[path] = content on a dict kept in insertion order
SetItem(d, path, content) ==
    IF \E i \in 1..Len(d) : d[i].path = path
    THEN [i \in 1..Len(d) |-> IF d[i].path = path THEN File(path, content) ELSE d[i]]
    ELSE Append(d, File(path, content))

RECURSIVE DictFrom(_, _)
DictFrom(d, files) ==
    IF files = <<>> THEN d
    ELSE DictFrom(SetItem(d, Head(files).path, Head(files).content), Tail(files))

\* {f["path"]: f["content"] for f in code_files}
DictOf(files) == DictFrom(<<>>, files)

\* d[path]
ItemOf(d, path) == (CHOOSE i \in 1..Len(d) : d[i].path = path)

\* the dict as a mapping, order forgotten
AsMapping(d) ==
    [q \in { d[i].path : i \in 1..Len(d) } |-> d[ItemOf(d, q)].content]

\* the directory after the first k files of the list were written into it
RECURSIVE Written(_, _, _)
Written(dir, files, k) ==
    IF k = 0 THEN dir
    ELSE Put(Written(dir, files, k - 1), files[k].path, files[k].content)

\* tempfile.mkdtemp(prefix="qa_test_"): the absolute path of a fresh directory
TempDirPath == <<"/","t","m","p","/","q","a">>

\* os.path.join(a, b): an absolute b discards a
PathJoin(a, b) ==
    IF b # <<>> /\ b[1] = "/" THEN b
    ELSE IF a[Len(a)] = "/" THEN a \o b ELSE a \o <<"/">> \o b

\* the components of a path, between its "/" characters
RECURSIVE Components(_)
Components(path) ==
    IF ~Contains(<<"/">>, path) THEN << path >>
    ELSE LET k == CHOOSE i \in 1..Len(path) :
                      path[i] = "/" /\ \A j \in 1..(i - 1) : path[j] # "/"
         IN << SubSeq(path, 1, k - 1) >> \o Components(SubSeq(path, k + 1, Len(path)))

\* where open() finds the components of an absolute path: an empty component
\* and "." stay in place, ".." goes to the parent, and the root is its own
\* parent
RECURSIVE Resolved(_, _)
Resolved(done, rest) ==
    IF rest = <<>> THEN done
    ELSE LET c == Head(rest) IN
         Resolved(IF c = <<>> \/ c = <<".">> THEN done
                  ELSE IF c = <<".", ".">>
                       THEN (IF done = <<>> THEN done ELSE SubSeq(done, 1, Len(done) - 1))
                       ELSE Append(done, c),
                  Tail(rest))

Location(full) == Resolved(<<>>, Components(full))

\* full_path = os.path.join(temp_dir, file_path) names a file below temp_dir
InTempDir(path) ==
    LET d == Location(TempDirPath)
        f == Location(PathJoin(TempDirPath, path))
    IN Len(f) > Len(d) /\ SubSeq(f, 1, Len(d)) = d

\* what shutil.rmtree(temp_dir) leaves of the files written: those that are
\* not below temp_dir
LeftByRmtree(dir) ==
    LET out == { q \in DOMAIN dir : ~InTempDir(q) }
    IN IF out = {} THEN EmptyDict ELSE [q \in out |-> dir[q]]

\* file_path.replace("/", "\\")
BackSlashed(path) == [i \in 1..Len(path) |-> IF path[i] = "/" THEN "\\" ELSE path[i]]

PriorityFiles == << P_package_json, P_main_py, P_index_js, P_app_py, P_server_py >>

\* mutant: only the path as written is looked for, not its backslash form
IdentifyFilesToFix_forwardSlashOnly(msg, d) ==
    LET named == SelectSeq(Paths(d), LAMBDA q : Contains(q, msg))
        present == SelectSeq(PriorityFiles, LAMBDA pf : pf \in PathSet(d))
        found == IF named # <<>> THEN named
                 ELSE IF present # <<>> THEN << Head(present) >> ELSE <<>>
    IN SubSeq(found, 1, IF Len(found) < MaxFixesPerAttempt THEN Len(found) ELSE MaxFixesPerAttempt)

\* mutant: every file found is returned
IdentifyFilesToFix_uncapped(msg, d) ==
    LET named == SelectSeq(Paths(d),
                     LAMBDA q : Contains(q, msg) \/ Contains(BackSlashed(q), msg))
        present == SelectSeq(PriorityFiles, LAMBDA pf : pf \in PathSet(d))
    IN IF named # <<>> THEN named
       ELSE IF present # <<>> THEN << Head(present) >> ELSE <<>>

\* _identify_files_to_fix
IdentifyFilesToFix(msg, d) ==
    LET named == SelectSeq(Paths(d),
                     LAMBDA q : Contains(q, msg) \/ Contains(BackSlashed(q), msg))
        present == SelectSeq(PriorityFiles, LAMBDA pf : pf \in PathSet(d))
        found == IF named # <<>> THEN named
                 ELSE IF present # <<>> THEN << Head(present) >> ELSE <<>>
    IN SubSeq(found, 1, IF Len(found) < MaxFixesPerAttempt THEN Len(found) ELSE MaxFixesPerAttempt)

EntryPoints == << P_main_py, P_app_py, P_run_py, P_server_py, P_dunder_main_py >>

\* _test_python_project finds a file to run: an entry point, or a .py file
\* directly under temp_dir
HasPythonEntry(dir) ==
    \/ \E i \in 1..Len(EntryPoints) : EntryPoints[i] \in DOMAIN dir
    \/ \E q \in DOMAIN dir : EndsWith(q, S_dot_py) /\ ~Contains(<<"/">>, q)

Result(success, stdout, stderr) == [success |-> success, stdout |-> stdout, stderr |-> stderr]

\* a or b on texts
Or(a, b) == IF Truthy(a) THEN a ELSE b

\* How one subprocess.run call ended: "exit0", "nonzero", "timeout"
\* (subprocess.TimeoutExpired), "error" (any other exception, the process
\* could not be spawned; stderr then stands for str(e)), or "not_run".
Ended(kind, stdout, stderr) == [kind |-> kind, stdout |-> stdout, stderr |-> stderr]
NotRun == Ended("not_run", <<>>, <<>>)

\* the endings of a dependency install (its stdout is not looked at on success)
InstallEndings ==
    { Ended("exit0", <<>>, <<>>), Ended("timeout", <<>>, <<>>), Ended("error", <<>>, S_boom) }
    \cup { Ended("nonzero", <<>>, e) : e \in ProcessTexts }

\* the endings of npm start and of python <main_file>
RunEndings ==
    { Ended("exit0", o, <<>>) : o \in {<<>>, S_boom} }
    \cup { Ended("nonzero", <<>>, e) : e \in ProcessTexts }
    \cup { Ended("nonzero", S_boom, <<>>),
           Ended("timeout", <<>>, <<>>),
           Ended("error", <<>>, S_boom) }

\* mutant: an npm install that timed out counts as passed
NodeTest_installTimeoutPasses(install, start) ==
    CASE install.kind = "nonzero" ->
            Result(FALSE, install.stdout, S_npm_install_failed \o install.stderr)
      [] install.kind = "timeout" -> Result(TRUE, S_npm_install_timed_out, <<>>)
      [] install.kind = "error"   -> Result(FALSE, <<>>, S_npm_install_error \o install.stderr)
      [] install.kind = "exit0" ->
            CASE start.kind = "nonzero" -> Result(FALSE, start.stdout, start.stderr)
              [] start.kind = "exit0"   ->
                    Result(TRUE, Or(start.stdout, S_Started_successfully), <<>>)
              [] start.kind = "timeout" -> Result(TRUE, S_Server_started_and_running, <<>>)
              [] start.kind = "error"   -> Result(FALSE, <<>>, S_npm_start_error \o start.stderr)

\* mutant: a failed npm install is reported with the bare stderr of npm
NodeTest_installUntagged(install, start) ==
    CASE install.kind = "nonzero" -> Result(FALSE, install.stdout, install.stderr)
      [] install.kind = "timeout" -> Result(FALSE, <<>>, S_npm_install_timed_out)
      [] install.kind = "error"   -> Result(FALSE, <<>>, S_npm_install_error \o install.stderr)
      [] install.kind = "exit0" ->
            CASE start.kind = "nonzero" -> Result(FALSE, start.stdout, start.stderr)
              [] start.kind = "exit0"   ->
                    Result(TRUE, Or(start.stdout, S_Started_successfully), <<>>)
              [] start.kind = "timeout" -> Result(TRUE, S_Server_started_and_running, <<>>)
              [] start.kind = "error"   -> Result(FALSE, <<>>, S_npm_start_error \o start.stderr)

\* _test_node_project: npm install, then npm start
NodeTest(install, start) ==
    CASE install.kind = "nonzero" ->
            Result(FALSE, install.stdout, S_npm_install_failed \o install.stderr)
      [] install.kind = "timeout" -> Result(FALSE, <<>>, S_npm_install_timed_out)
      [] install.kind = "error"   -> Result(FALSE, <<>>, S_npm_install_error \o install.stderr)
      [] install.kind = "exit0" ->
            CASE start.kind = "nonzero" -> Result(FALSE, start.stdout, start.stderr)
              [] start.kind = "exit0"   ->
                    Result(TRUE, Or(start.stdout, S_Started_successfully), <<>>)
              [] start.kind = "timeout" -> Result(TRUE, S_Server_started_and_running, <<>>)
              [] start.kind = "error"   -> Result(FALSE, <<>>, S_npm_start_error \o start.stderr)

\* mutant: a script that is still running at the timeout counts as failed
PythonTest_timeoutFails(has_entry, install, run) ==
    IF ~has_entry THEN Result(TRUE, S_No_Python_entry_point_found, <<>>)
    ELSE CASE run.kind = "timeout" -> Result(FALSE, <<>>, S_Script_running)
           [] run.kind = "error"   -> Result(FALSE, <<>>, run.stderr)
           [] OTHER                -> Result(run.kind = "exit0", run.stdout, run.stderr)

\* mutant: a script that could not be started counts as passed
PythonTest_spawnErrorPasses(has_entry, install, run) ==
    IF ~has_entry THEN Result(TRUE, S_No_Python_entry_point_found, <<>>)
    ELSE CASE run.kind = "timeout" -> Result(TRUE, S_Script_running, <<>>)
           [] run.kind = "error"   -> Result(TRUE, <<>>, run.stderr)
           [] OTHER                -> Result(run.kind = "exit0", run.stdout, run.stderr)

\* _test_python_project: the entry point, pip install when requirements.txt
\* is there (try: .. except: pass, its ending is not looked at), then the run
PythonTest(has_entry, install, run) ==
    IF ~has_entry THEN Result(TRUE, S_No_Python_entry_point_found, <<>>)
    ELSE CASE run.kind = "timeout" -> Result(TRUE, S_Script_running, <<>>)
           [] run.kind = "error"   -> Result(FALSE, <<>>, run.stderr)
           [] OTHER                -> Result(run.kind = "exit0", run.stdout, run.stderr)

Executed(install, run) == [install |-> install, run |-> run]
NothingExecuted == Executed(NotRun, NotRun)
Outcome(install, run, result) == [executed |-> Executed(install, run), result |-> result]

\* every way the test of a node project can go: npm start runs only after
\* npm install exited with 0
NodeOutcomes ==
    { Outcome(i, NotRun, NodeTest(i, NotRun)) : i \in InstallEndings \ {Ended("exit0", <<>>, <<>>)} }
    \cup { Outcome(Ended("exit0", <<>>, <<>>), r, NodeTest(Ended("exit0", <<>>, <<>>), r)) :
              r \in RunEndings }

\* every way the test of a python project can go on the files of dir
PythonOutcomes(dir) ==
    IF ~HasPythonEntry(dir)
    THEN { Outcome(NotRun, NotRun, PythonTest(FALSE, NotRun, NotRun)) }
    ELSE { Outcome(i, r, PythonTest(TRUE, i, r)) :
             i \in (IF P_requirements_txt \in DOMAIN dir THEN InstallEndings ELSE {NotRun}),
             r \in RunEndings }

\* mutant: a static project is run like a python project
TestOutcomes_runsStatic(type, dir) ==
    IF type = "node" THEN NodeOutcomes
    ELSE { Outcome(NotRun, r, PythonTest(TRUE, NotRun, r)) : r \in RunEndings }

\* the test of one attempt, by project type
TestOutcomes(type, dir) ==
    IF type = "node" THEN NodeOutcomes
    ELSE IF type = "python" THEN PythonOutcomes(dir)
    ELSE { Outcome(NotRun, NotRun, Result(TRUE, S_No_executable_test_available, <<>>)) }

\* mutant: the loop goes on after a passing test
StopsLoop_never(result) == FALSE

\* if result["success"]: .. break
StopsLoop(result) == result.success

NoReply == [raised |-> FALSE, content |-> "-"]
\* self._invoke_llm in _fix_code: an answer, or the call raised
PatchResponses == { [raised |-> TRUE, content |-> ""] }
                  \cup { [raised |-> FALSE, content |-> t] : t \in PatchTexts }

\* mutant: a failed gateway call leaves the file as it is and the loop goes on
FixCode_swallows(resp, content) ==
    IF resp.raised THEN [raised |-> FALSE, content |-> content]
    ELSE [raised |-> FALSE, content |-> resp.content]

\* _fix_code: the patched content, or the gateway's exception
FixCode(resp, content) ==
    IF resp.raised THEN [raised |-> TRUE, content |-> content]
    ELSE [raised |-> FALSE, content |-> resp.content]

\* one entry of test_results
TestAttempt(n, type, result) ==
    [attempt |-> n, project_type |-> type, success |-> result.success,
     stdout |-> result.stdout, stderr |-> result.stderr]

\* mutant: a fourth iteration
LoopContinues_oneMore(a) == a + 1 < MAX_FIX_ATTEMPTS + 1

\* for attempt in range(self.MAX_FIX_ATTEMPTS): there is a next iteration
LoopContinues(a) == a + 1 < MAX_FIX_ATTEMPTS

\* mutant: the files are patched after the last attempt too
PatchAllowed_always(a) == TRUE

\* if attempt < self.MAX_FIX_ATTEMPTS - 1
PatchAllowed(a) == a < MAX_FIX_ATTEMPTS - 1

Return(files, results) ==
    [kind |-> "return", cause |-> "none", code_files |-> files, test_results |-> results]
\* an exception leaves the try block; cause: "staging", "test" or "gateway"
Raise(cause) == [kind |-> "raise", cause |-> cause, code_files |-> <<>>, test_results |-> <<>>]
NoOutcome == [kind |-> "none", cause |-> "none", code_files |-> <<>>, test_results |-> <<>>]

\* mutant: the directory is removed on the normal path only
Unwind_noFinally(kind) == IF kind = "raise" THEN "raised" ELSE "cleanup"

\* try: .. finally: the finally block runs however the try block ended
Unwind(kind) == "cleanup"

SandboxIdle ==
    /\ qa_pc = "idle"
    /\ code_files = <<>>
    /\ project_type = "unknown"
    /\ temp_dir = "none"
    /\ disk = EmptyDict
    /\ current_files = <<>>
    /\ test_results = <<>>
    /\ attempt = 0
    /\ error_msg = <<>>
    /\ files_to_fix = <<>>
    /\ patch_requests = 0
    /\ tested = EmptyDict
    /\ outcome = NoOutcome
    /\ rmtree = "not_called"
    /\ executed = NothingExecuted
    /\ patch_reply = NoReply

----------------------------------------------------------------------------
(* Executor *)

Running == pc \notin {"END", "recursion_error"}

\* mutant: the executor runs without an iteration cap
AtStage_uncapped(stage) == pc = stage

\* the executor is about to run `stage` and is within its cap
AtStage(stage) == pc = stage /\ steps < RecursionLimit

Log(kind, path) == [kind |-> kind, path |-> path]
NoPrompt == [kind |-> "none", file |-> <<>>, breakdown |-> <<>>]

\* generate_project: the initial state handed to graph.invoke
Init ==
    /\ pc = "analyze_requirements"
    /\ steps = 0
    /\ file_structure = <<>>
    /\ generated_files = <<>>
    /\ current_file_index = 0
    /\ review_feedback = EmptyDict
    /\ retry_count = 0
    /\ status = "starting"
    /\ architecture = ""
    /\ last_log = Log("initiating", <<>>)
    /\ prompt = NoPrompt
    /\ response = NoResponse
    /\ rejections = 0
    /\ route = "none"
    /\ ParserIdle
    /\ SandboxIdle

\* _analyze_requirements: sets only "requirements" (a text no stage branches on)
AnalyzeRequirements ==
    /\ AtStage("analyze_requirements")
    /\ pc' = Edge("analyze_requirements")
    /\ steps' = steps + 1
    /\ prompt' = NoPrompt
    /\ response' = NoResponse
    /\ last_log' = Log("pm", <<>>)
    /\ UNCHANGED besidesWorkflow
    /\ UNCHANGED <<file_structure, generated_files, current_file_index, review_feedback,
                   retry_count, status, architecture, rejections, route>>

\* _plan_architecture
PlanArchitecture ==
    /\ AtStage("plan_architecture")
    /\ \E resp \in PlanResponses :
        /\ file_structure' = PlanOfResponse(resp).plan
        /\ architecture' = IF PlanExcepted(resp)
                           THEN "Standard Architecture" ELSE "response"
    /\ current_file_index' = 0
    /\ retry_count' = 0
    /\ rejections' = 0
    /\ pc' = Edge("plan_architecture")
    /\ steps' = steps + 1
    /\ prompt' = NoPrompt
    /\ response' = NoResponse
    /\ last_log' = Log("architect", <<>>)
    /\ UNCHANGED besidesWorkflow
    /\ UNCHANGED <<generated_files, review_feedback, status, route>>

\* _define_ux, then the conditional edge through _route_development
DefineUx ==
    /\ AtStage("define_ux")
    /\ route' = RouteDevelopment(file_structure, current_file_index, review_feedback)
    /\ pc' = DevelopmentTarget(route')
    /\ steps' = steps + 1
    /\ prompt' = NoPrompt
    /\ response' = NoResponse
    /\ last_log' = Log("ux", <<>>)
    /\ UNCHANGED besidesWorkflow
    /\ UNCHANGED <<file_structure, generated_files, current_file_index, review_feedback,
                   retry_count, status, architecture, rejections>>

\* the file the stages of the review loop work on
CurrentEntry == file_structure[current_file_index + 1]
CurrentPath == CurrentEntry.path

\* mutant: no placeholder is substituted when the gateway call fails
CodeOf_noPlaceholder(resp) == resp.content

\* try: code = self._clean_code(invoke(prompt).content)   except: code = "// Error generating code"
CodeOf(resp) == IF resp.raised THEN ErrorCode ELSE resp.content

\* mutant: the new entry is appended and an earlier one for the path is kept
ReplaceOrAppend_keepsEarlier(files, path, code) ==
    Append(files, [path |-> path, content |-> code])

\* files = [f for f in generated_files if f["path"] != file_path]; files.append(..)
ReplaceOrAppend(files, path, code) ==
    Append(SelectSeq(files, LAMBDA f : f.path # path), [path |-> path, content |-> code])

\* _generate_code, run as frontend_dev or as backend_dev, then the stage's edge
GenerateCode(stage) ==
    /\ AtStage(stage)
    /\ LET feedback == Get(review_feedback, CurrentPath) IN
        /\ prompt' = IF Truthy(feedback)
                     THEN [kind |-> "fix", file |-> CurrentPath, breakdown |-> feedback]
                     ELSE [kind |-> "write", file |-> CurrentPath, breakdown |-> <<>>]
        /\ \E resp \in CodeResponses :
            /\ response' = resp
            /\ generated_files' =
                  ReplaceOrAppend(generated_files, CurrentPath, CodeOf(resp))
    /\ pc' = Edge(stage)
    /\ steps' = steps + 1
    /\ last_log' = Log("dev", CurrentPath)
    /\ UNCHANGED besidesWorkflow
    /\ UNCHANGED <<file_structure, current_file_index, review_feedback, retry_count,
                   status, architecture, rejections, route>>

FrontendCoding == GenerateCode("frontend_dev")
BackendCoding == GenerateCode("backend_dev")

\* mutant: an approval at the code gate skips the file after the approved one
NextIndex_skips(idx) == idx + 2

\* "current_file_index": idx + 1
NextIndex(idx) == idx + 1

CountRejection == IF rejections < MaxRejectionsTracked THEN rejections + 1 ELSE rejections

\* _review_design, then the conditional edge through _handle_design_review
ReviewDesign ==
    /\ AtStage("review_design")
    /\ \/ /\ BreakerTripped(retry_count)
          /\ review_feedback' = Del(review_feedback, CurrentPath)
          /\ retry_count' = 0
          /\ last_log' = Log("design_forced", CurrentPath)
          /\ response' = NoResponse
          /\ UNCHANGED rejections
       \/ /\ ~BreakerTripped(retry_count)
          /\ \E o \in GateOutcomes :
              /\ response' = o.resp
              /\ IF o.approved
                 THEN /\ review_feedback' = Del(review_feedback, CurrentPath)
                      /\ retry_count' = 0
                      /\ last_log' = Log("design_passed", CurrentPath)
                      /\ UNCHANGED rejections
                 ELSE /\ review_feedback' =
                           Put(review_feedback, CurrentPath, DesignFixPrefix \o o.reason)
                      /\ retry_count' = retry_count + 1
                      /\ last_log' = Log("design_rejected", CurrentPath)
                      /\ rejections' = CountRejection
    /\ pc' = DesignTarget(HandleDesignReview(file_structure, current_file_index, review_feedback'))
    /\ steps' = steps + 1
    /\ prompt' = NoPrompt
    /\ UNCHANGED besidesWorkflow
    /\ UNCHANGED <<file_structure, generated_files, current_file_index, status,
                   architecture, route>>

\* _review_code, then the conditional edge through _route_development
ReviewCode ==
    /\ AtStage("review_code")
    /\ \/ /\ BreakerTripped(retry_count)
          /\ current_file_index' = NextIndex(current_file_index)
          /\ review_feedback' = Del(review_feedback, CurrentPath)
          /\ retry_count' = 0
          /\ last_log' = Log("qa_forced", CurrentPath)
          /\ response' = NoResponse
          /\ rejections' = 0
       \/ /\ ~BreakerTripped(retry_count)
          /\ \E o \in GateOutcomes :
              /\ response' = o.resp
              /\ IF o.approved
                 THEN /\ current_file_index' = NextIndex(current_file_index)
                      /\ review_feedback' = Del(review_feedback, CurrentPath)
                      /\ retry_count' = 0
                      /\ last_log' = Log("qa_verified", CurrentPath)
                      /\ rejections' = 0
                 ELSE /\ review_feedback' =
                           Put(review_feedback, CurrentPath, QAFixPrefix \o o.reason)
                      /\ retry_count' = retry_count + 1
                      /\ last_log' = Log("qa_rejected", CurrentPath)
                      /\ rejections' = CountRejection
                      /\ UNCHANGED current_file_index
    /\ route' = RouteDevelopment(file_structure, current_file_index', review_feedback')
    /\ pc' = DevelopmentTarget(route')
    /\ steps' = steps + 1
    /\ prompt' = NoPrompt
    /\ UNCHANGED besidesWorkflow
    /\ UNCHANGED <<file_structure, generated_files, status, architecture>>

\* _create_deployment
CreateDeployment ==
    /\ AtStage("create_deployment")
    /\ \E raised \in BOOLEAN :
        generated_files' =
            Append(generated_files,
                   [path |-> <<"Dockerfile">>,
                    content |-> IF raised THEN "# Dockerfile generation failed" ELSE "dockerfile"])
    /\ pc' = Edge("create_deployment")
    /\ steps' = steps + 1
    /\ prompt' = NoPrompt
    /\ response' = NoResponse
    /\ last_log' = Log("devops", <<>>)
    /\ UNCHANGED besidesWorkflow
    /\ UNCHANGED <<file_structure, current_file_index, review_feedback, retry_count,
                   status, architecture, rejections, route>>

\* _write_docs
WriteDocs ==
    /\ AtStage("write_docs")
    /\ \E raised \in BOOLEAN :
        generated_files' =
            Append(generated_files,
                   [path |-> P_README_md,
                    content |-> IF raised THEN "# README" ELSE "readme"])
    /\ pc' = Edge("write_docs")
    /\ steps' = steps + 1
    /\ prompt' = NoPrompt
    /\ response' = NoResponse
    /\ last_log' = Log("writer", <<>>)
    /\ UNCHANGED besidesWorkflow
    /\ UNCHANGED <<file_structure, current_file_index, review_feedback, retry_count,
                   status, architecture, rejections, route>>

\* _finalize, then the edge to END
Finalize ==
    /\ AtStage("finalize")
    /\ status' = "completed"
    /\ pc' = Edge("finalize")
    /\ steps' = steps + 1
    /\ prompt' = NoPrompt
    /\ response' = NoResponse
    /\ last_log' = Log("accomplished", <<>>)
    /\ UNCHANGED besidesWorkflow
    /\ UNCHANGED <<file_structure, generated_files, current_file_index, review_feedback,
                   retry_count, architecture, rejections, route>>

\* graph.invoke(state, {"recursion_limit": 100}): a stage is due and the cap is used up
RecursionExceeded ==
    /\ Running
    /\ steps >= RecursionLimit
    /\ pc' = "recursion_error"
    /\ UNCHANGED besidesWorkflow
    /\ UNCHANGED <<steps, file_structure, generated_files, current_file_index,
                   review_feedback, retry_count, status, architecture, last_log,
                   prompt, response, rejections, route>>

Next ==
    \/ AnalyzeRequirements
    \/ PlanArchitecture
    \/ DefineUx
    \/ FrontendCoding
    \/ BackendCoding
    \/ ReviewDesign
    \/ ReviewCode
    \/ CreateDeployment
    \/ WriteDocs
    \/ Finalize
    \/ RecursionExceeded

Spec == Init /\ [][Next]_vars

\* graph.invoke runs stage after stage on one thread until END or the cap
FairSpec == Spec /\ WF_vars(Next)

----------------------------------------------------------------------------
(* The specialist router on its own: _route_development applied to a state  *)
(* drawn from file plans over RouterEntries, every index, feedback pending   *)
(* for the current file or not.                                              *)

FeedbackChoices(fs, idx) ==
    {EmptyDict} \cup
    (IF idx < Len(fs)
     THEN { Put(EmptyDict, fs[idx + 1].path, QAFixPrefix \o <<"o", "k">>) }
     ELSE {})

RouterInit ==
    /\ pc = "route"
    /\ steps = 0
    /\ file_structure \in PlansOver(RouterEntries)
    /\ current_file_index \in 0..MaxFiles
    /\ review_feedback \in FeedbackChoices(file_structure, current_file_index)
    /\ generated_files = <<>>
    /\ retry_count = 0
    /\ status = "starting"
    /\ architecture = "response"
    /\ last_log = Log("initiating", <<>>)
    /\ prompt = NoPrompt
    /\ response = NoResponse
    /\ rejections = 0
    /\ route = "none"
    /\ ParserIdle
    /\ SandboxIdle

ApplyRouter ==
    /\ pc = "route"
    /\ route' = RouteDevelopment(file_structure, current_file_index, review_feedback)
    /\ pc' = "routed"
    /\ UNCHANGED besidesWorkflow
    /\ UNCHANGED <<steps, file_structure, generated_files, current_file_index,
                   review_feedback, retry_count, status, architecture, last_log,
                   prompt, response, rejections>>

RouterNext == ApplyRouter

RouterSpec == RouterInit /\ [][RouterNext]_vars

----------------------------------------------------------------------------
(* The extraction of the file plan on its own: each of the three sites       *)
(* applied to each completion text.                                          *)

Sites == {"crew", "graph", "tech_lead"}

\* the workflow is not running
WorkflowIdle ==
    /\ pc = "idle"
    /\ steps = 0
    /\ file_structure = <<>>
    /\ generated_files = <<>>
    /\ current_file_index = 0
    /\ review_feedback = EmptyDict
    /\ retry_count = 0
    /\ status = "starting"
    /\ architecture = ""
    /\ last_log = Log("initiating", <<>>)
    /\ prompt = NoPrompt
    /\ response = NoResponse
    /\ rejections = 0
    /\ route = "none"

ParserInit ==
    /\ WorkflowIdle
    /\ SandboxIdle
    /\ site \in Sites
    /\ completion \in CompletionTexts
    /\ parsed = NotParsed

\* crew.py: files_to_create = self._parse_file_structure(str(structure_result))
CrewParse ==
    /\ site = "crew"
    /\ ~parsed.done
    /\ parsed' = ParseFileStructure(completion)
    /\ UNCHANGED <<workflowVars, sandboxVars, site, completion>>

\* graph.py: _plan_architecture on a response that arrived
GraphParse ==
    /\ site = "graph"
    /\ ~parsed.done
    /\ parsed' = PlanOfResponse(Answer(completion))
    /\ UNCHANGED <<workflowVars, sandboxVars, site, completion>>

\* agents.py: breakdown_tasks on a response that arrived
TechLeadParse ==
    /\ site = "tech_lead"
    /\ ~parsed.done
    /\ parsed' = BreakdownTasks(completion)
    /\ UNCHANGED <<workflowVars, sandboxVars, site, completion>>

ParserNext ==
    \/ CrewParse
    \/ GraphParse
    \/ TechLeadParse

ParserSpec == ParserInit /\ [][ParserNext]_vars

----------------------------------------------------------------------------
(* The sandbox session: one call of QAEngineerAgent.validate_and_test on     *)
(* each list of SandboxInputs, with every outcome of the tests, of the       *)
(* gateway and of the file system.                                           *)

SandboxInit ==
    /\ WorkflowIdle
    /\ ParserIdle
    /\ qa_pc = "start"
    /\ code_files \in SandboxInputs
    /\ project_type = "unknown"
    /\ temp_dir = "none"
    /\ disk = EmptyDict
    /\ current_files = <<>>
    /\ test_results = <<>>
    /\ attempt = 0
    /\ error_msg = <<>>
    /\ files_to_fix = <<>>
    /\ patch_requests = 0
    /\ tested = EmptyDict
    /\ outcome = NoOutcome
    /\ rmtree = "not_called"
    /\ executed = NothingExecuted
    /\ patch_reply = NoReply

\* validate_and_test up to the try: the project type, then tempfile.mkdtemp
StartSession ==
    /\ qa_pc = "start"
    /\ project_type' = DetectProjectType(code_files)
    /\ temp_dir' = "exists"
    /\ qa_pc' = "staging"
    /\ UNCHANGED <<workflowVars, parserVars>>
    /\ UNCHANGED <<code_files, disk, current_files, test_results, attempt, error_msg,
                   files_to_fix, patch_requests, tested, outcome, rmtree, executed, patch_reply>>

\* every file is written under temp_dir; _test_and_fix_project starts
StageFiles ==
    /\ qa_pc = "staging"
    /\ disk' = Written(EmptyDict, code_files, Len(code_files))
    /\ current_files' = DictOf(code_files)
    /\ test_results' = <<>>
    /\ attempt' = 0
    /\ qa_pc' = "test"
    /\ UNCHANGED <<workflowVars, parserVars>>
    /\ UNCHANGED <<code_files, project_type, temp_dir, error_msg, files_to_fix,
                   patch_requests, tested, outcome, rmtree, executed, patch_reply>>

\* os.makedirs or open/write raises on the file after the first k
StagingRaises ==
    /\ qa_pc = "staging"
    /\ \E k \in 0..(Len(code_files) - 1) :
          disk' = Written(EmptyDict, code_files, k)
    /\ outcome' = Raise("staging")
    /\ qa_pc' = Unwind("raise")
    /\ UNCHANGED <<workflowVars, parserVars>>
    /\ UNCHANGED <<code_files, project_type, temp_dir, current_files, test_results, attempt,
                   error_msg, files_to_fix, patch_requests, tested, rmtree, executed, patch_reply>>

\* one iteration of the loop up to the patching: the test, its TestAttempt,
\* and on a failure the candidates to patch
RunTest ==
    /\ qa_pc = "test"
    /\ \E o \in TestOutcomes(project_type, disk) :
        /\ executed' = o.executed
        /\ test_results' =
              Append(test_results, TestAttempt(attempt + 1, project_type, o.result))
        /\ IF StopsLoop(o.result)
           THEN /\ outcome' = Return(current_files, test_results')      \* break
                /\ qa_pc' = Unwind("return")
                /\ UNCHANGED <<error_msg, files_to_fix>>
           ELSE /\ error_msg' = Or(o.result.stderr, o.result.stdout)
                /\ files_to_fix' = IF PatchAllowed(attempt)
                                   THEN IdentifyFilesToFix(error_msg', current_files)
                                   ELSE <<>>
                /\ qa_pc' = "fix"
                /\ UNCHANGED outcome
    /\ tested' = disk
    /\ UNCHANGED <<workflowVars, parserVars>>
    /\ UNCHANGED <<code_files, project_type, temp_dir, disk, current_files, attempt,
                   patch_requests, rmtree, patch_reply>>

\* an exception leaves the test step (os.listdir, a log callback)
TestRaises ==
    /\ qa_pc = "test"
    /\ outcome' = Raise("test")
    /\ qa_pc' = Unwind("raise")
    /\ UNCHANGED <<workflowVars, parserVars>>
    /\ UNCHANGED <<code_files, project_type, temp_dir, disk, current_files, test_results,
                   attempt, error_msg, files_to_fix, patch_requests, tested, rmtree, executed, patch_reply>>

\* the next candidate is patched: _fix_code, then the dict and the file under temp_dir
FixFile ==
    /\ qa_pc = "fix"
    /\ files_to_fix # <<>>
    /\ patch_requests' = patch_requests + 1
    /\ \E resp \in PatchResponses :
        LET path == Head(files_to_fix)
            fixed == FixCode(resp, current_files[ItemOf(current_files, path)].content)
        IN  /\ ~fixed.raised
            /\ patch_reply' = resp
            /\ current_files' = SetItem(current_files, path, fixed.content)
            /\ disk' = Put(disk, path, fixed.content)
    /\ files_to_fix' = Tail(files_to_fix)
    /\ UNCHANGED <<workflowVars, parserVars>>
    /\ UNCHANGED <<qa_pc, code_files, project_type, temp_dir, test_results, attempt,
                   error_msg, tested, outcome, rmtree, executed>>

\* the gateway call of _fix_code raises; nothing catches it before the finally
FixRaises ==
    /\ qa_pc = "fix"
    /\ files_to_fix # <<>>
    /\ patch_requests' = patch_requests + 1
    /\ \E resp \in PatchResponses :
        LET path == Head(files_to_fix)
            fixed == FixCode(resp, current_files[ItemOf(current_files, path)].content)
        IN  /\ fixed.raised
            /\ patch_reply' = resp
    /\ outcome' = Raise("gateway")
    /\ qa_pc' = Unwind("raise")
    /\ UNCHANGED <<workflowVars, parserVars>>
    /\ UNCHANGED <<code_files, project_type, temp_dir, disk, current_files, test_results,
                   attempt, error_msg, files_to_fix, tested, rmtree, executed>>

\* the end of an iteration that failed: the next one, or the end of the loop
\* and the return of the files and the history
NextAttempt ==
    /\ qa_pc = "fix"
    /\ files_to_fix = <<>>
    /\ IF LoopContinues(attempt)
       THEN /\ attempt' = attempt + 1
            /\ qa_pc' = "test"
            /\ UNCHANGED outcome
       ELSE /\ outcome' = Return(current_files, test_results)
            /\ qa_pc' = Unwind("return")
            /\ UNCHANGED attempt
    /\ UNCHANGED <<workflowVars, parserVars>>
    /\ UNCHANGED <<code_files, project_type, temp_dir, disk, current_files, test_results,
                   error_msg, files_to_fix, patch_requests, tested, rmtree, executed, patch_reply>>

\* finally: try: shutil.rmtree(temp_dir) except: pass; then the call returns
\* or the exception goes on
Cleanup ==
    /\ qa_pc = "cleanup"
    /\ \E removed \in BOOLEAN :
        /\ rmtree' = IF removed THEN "ok" ELSE "failed"
        /\ temp_dir' = IF removed THEN "removed" ELSE temp_dir
        /\ disk' = IF removed THEN LeftByRmtree(disk) ELSE disk
    /\ qa_pc' = IF outcome.kind = "return" THEN "returned" ELSE "raised"
    /\ UNCHANGED <<workflowVars, parserVars>>
    /\ UNCHANGED <<code_files, project_type, current_files, test_results, attempt,
                   error_msg, files_to_fix, patch_requests, tested, outcome, executed, patch_reply>>

SandboxNext ==
    \/ StartSession
    \/ StageFiles
    \/ StagingRaises
    \/ RunTest
    \/ TestRaises
    \/ FixFile
    \/ FixRaises
    \/ NextAttempt
    \/ Cleanup

SandboxSpec == SandboxInit /\ [][SandboxNext]_vars

----------------------------------------------------------------------------
(* Runs without a rejection: the workflow from define_ux on, over plans of   *)
(* up to MaxPlanLength files, in which every generation succeeds and every   *)
(* gate approves the file the first time it sees it.                         *)

\* the generation stages, the review gates, and the log lines of the gates
GenStages == {"frontend_dev", "backend_dev"}
GateStages == {"review_design", "review_code"}
ApprovalLogs == {"design_passed", "design_forced", "qa_verified", "qa_forced"}
RejectionLogs == {"design_rejected", "qa_rejected"}

\* n distinct files for one specialist: "a.html", "aa.html", .. or "a.py", "aa.py", ..
FrontendPlan(n) ==
    [i \in 1..n |-> Entry([k \in 1..i |-> "a"] \o S_dot_html, TRUE, S_frontend)]
BackendPlan(n) ==
    [i \in 1..n |-> Entry([k \in 1..i |-> "a"] \o S_dot_py, FALSE, <<>>)]

LongPlans == { FrontendPlan(n) : n \in 0..MaxPlanLength }
             \cup { BackendPlan(n) : n \in 0..MaxPlanLength }

\* the state plan_architecture leaves after analyze_requirements and itself ran
FirstPassInit ==
    /\ pc = "define_ux"
    /\ steps = 2
    /\ file_structure \in LongPlans
    /\ generated_files = <<>>
    /\ current_file_index = 0
    /\ review_feedback = EmptyDict
    /\ retry_count = 0
    /\ status = "starting"
    /\ architecture = "response"
    /\ last_log = Log("architect", <<>>)
    /\ prompt = NoPrompt
    /\ response = NoResponse
    /\ rejections = 0
    /\ route = "none"
    /\ ParserIdle
    /\ SandboxIdle

\* the gateway answers every generation prompt and no gate rejects
NoRejection ==
    /\ last_log'.kind \notin RejectionLogs
    /\ pc \in GenStages => ~response'.raised

FirstPassNext ==
    \/ DefineUx /\ NoRejection
    \/ FrontendCoding /\ NoRejection
    \/ BackendCoding /\ NoRejection
    \/ ReviewDesign /\ NoRejection
    \/ ReviewCode /\ NoRejection
    \/ CreateDeployment /\ NoRejection
    \/ WriteDocs /\ NoRejection
    \/ Finalize /\ NoRejection
    \/ RecursionExceeded /\ NoRejection

FirstPassSpec == FirstPassInit /\ [][FirstPassNext]_vars

----------------------------------------------------------------------------
(* The selection of the files to patch: _identify_files_to_fix applied to    *)
(* each dict of SelectionFileSets and each error text of SelectionTexts.     *)

\* the dicts current_files can be: path -> content, in insertion order
SelectionFileSets ==
    { << File(P_package_json, "c1"), File(P_index_js, "c2") >>,
      << File(P_index_js, "c1"), File(P_main_py, "c2"), File(P_package_json, "c3") >>,
      << File(P_main_py, "c1"), File(P_util_py, "c2") >>,
      << File(P_util_py, "c1"), File(P_server_py, "c2"), File(P_app_py, "c3") >>,
      << File(P_src_app_py, "c1"), File(P_util_py, "c2") >>,
      << File(P_index_html, "c1"), File(P_styles_css, "c2"), File(P_script_js, "c3") >>,
      << File(P_notes_txt, "c1") >>,
      << >> }

\* the error texts: nothing, a text naming no file, a text naming one path of
\* some dict in either separator convention, and texts naming two and three
SelectionTexts ==
    { <<>>, S_boom }
    \cup { S_at \o File_path : File_path \in
               UNION { PathSet(d) : d \in SelectionFileSets } }
    \cup { S_at \o BackSlashed(P_src_app_py),
           S_at \o P_util_py \o <<" ">> \o P_main_py,
           S_at \o P_script_js \o <<" ">> \o P_styles_css \o <<" ">> \o P_index_html }

SelectionInit ==
    /\ WorkflowIdle
    /\ ParserIdle
    /\ qa_pc = "identify"
    /\ code_files = <<>>
    /\ project_type = "unknown"
    /\ temp_dir = "none"
    /\ disk = EmptyDict
    /\ current_files \in SelectionFileSets
    /\ test_results = <<>>
    /\ attempt = 0
    /\ error_msg \in SelectionTexts
    /\ files_to_fix = <<>>
    /\ patch_requests = 0
    /\ tested = EmptyDict
    /\ outcome = NoOutcome
    /\ rmtree = "not_called"
    /\ executed = NothingExecuted
    /\ patch_reply = NoReply

\* files_to_fix = self._identify_files_to_fix(error_msg, current_files)
Identify ==
    /\ qa_pc = "identify"
    /\ files_to_fix' = IdentifyFilesToFix(error_msg, current_files)
    /\ qa_pc' = "identified"
    /\ UNCHANGED <<workflowVars, parserVars>>
    /\ UNCHANGED <<code_files, project_type, temp_dir, disk, current_files, test_results,
                   attempt, error_msg, patch_requests, tested, outcome, rmtree, executed,
                   patch_reply>>

SelectionNext == Identify

SelectionSpec == SelectionInit /\ [][SelectionNext]_vars

----------------------------------------------------------------------------
(* Properties *)


\* a stage ran in this step
StageRan == steps' = steps + 1

\* the keyword occurs in the text, whatever its case
HasKeyword(word, text) == Contains(word, Upper(text))

\* the path's entries in generated_files
EntriesFor(path) == { i \in 1..Len(generated_files) : generated_files[i].path = path }

\* C1: for every planned file and every sequence of gate verdicts, once the
\* file is being generated current_file_index eventually moves past it (the
\* review loop of one file ends by itself, not by the executor's cap).
C1_ReviewLoopTerminates ==
    \A i \in 0..(MaxFiles - 1) :
        (pc \in GenStages /\ current_file_index = i) ~> (current_file_index > i)

\* C2: the rejections of one file, design gate and code gate together, from
\* its first generation until current_file_index moves past it, are at most
\* MAX_RETRIES = 3.
C2_RejectionsBounded == rejections <= MAX_RETRIES

\* C3: right after an approval at either gate, natural or forced,
\* retry_count = 0 and review_feedback has no entry for the reviewed path
\* (nor for the file current_file_index points at, when the code gate moved on).
C3_ApprovalClearsRetryAndFeedback ==
    last_log.kind \in ApprovalLogs =>
        /\ retry_count = 0
        /\ last_log.path \notin DOMAIN review_feedback
        /\ current_file_index < Len(file_structure) =>
              CurrentPath \notin DOMAIN review_feedback

\* C3 witness: a forced approval at the code gate (three rejections came before it)
C3_Witness ==
    /\ last_log.kind = "qa_forced"
    /\ retry_count = 0
    /\ last_log.path \notin DOMAIN review_feedback

\* C4: a run executes at most RecursionLimit = 100 stages: every step is taken
\* by a run that has not ended, and either executes one stage within the cap
\* (reaching END only from finalize, with status "completed") or is the
\* recursion-exceeded failure once the cap is used up; a run that has not
\* ended can always take a step.
C4_TerminatesWithinCap ==
    /\ [](Running => ENABLED Next)
    /\ [][ /\ Running
           /\ \/ /\ steps' = steps + 1
                 /\ steps' <= RecursionLimit
                 /\ pc' # "recursion_error"
                 /\ pc' = "END" => (pc = "finalize" /\ status' = "completed")
              \/ /\ steps' = steps
                 /\ steps = RecursionLimit
                 /\ pc' = "recursion_error" ]_vars

\* C4 witness: a run that failed on the cap
C4_Witness == pc = "recursion_error" /\ steps = RecursionLimit /\ status # "completed"

\* C5 as stated: a verdict text with neither keyword (the empty text too) is
\* a pass: the gate stores no feedback and does not increment retry_count.
C5_AnyOtherTextPasses ==
    ( /\ last_log.kind \in ApprovalLogs \cup RejectionLogs
      /\ response # NoResponse
      /\ ~response.raised
      /\ ~HasKeyword(S_APPROVED, response.content)
      /\ ~HasKeyword(S_REJECTED, response.content) )
    => ( /\ last_log.kind \in ApprovalLogs
         /\ last_log.path \notin DOMAIN review_feedback
         /\ retry_count = 0 )

\* C5 amended: a gate that consults the gateway passes the file exactly when
\* the verdict text contains "APPROVED" and not "REJECTED" (in any case) or
\* the call failed; every other text, the empty text and a text with neither
\* keyword included, is a rejection: feedback is stored under the path and
\* retry_count goes up by one.
C5_VerdictClassification ==
    [][ (pc \in GateStages /\ StageRan /\ response' # NoResponse) =>
          IF \/ response'.raised
             \/ /\ HasKeyword(S_APPROVED, response'.content)
                /\ ~HasKeyword(S_REJECTED, response'.content)
          THEN /\ last_log'.kind \in {"design_passed", "qa_verified"}
               /\ CurrentPath \notin DOMAIN review_feedback'
               /\ retry_count' = 0
          ELSE /\ last_log'.kind \in RejectionLogs
               /\ CurrentPath \in DOMAIN review_feedback'
               /\ Truthy(review_feedback'[CurrentPath])
               /\ retry_count' = retry_count + 1 ]_vars

\* C5 witness: a gate rejected on a verdict text that has neither keyword
C5_Witness ==
    /\ last_log.kind \in RejectionLogs
    /\ response = Answer(<<>>)
    /\ retry_count > 0
    /\ last_log.path \in DOMAIN review_feedback

\* C6: when the gateway call of a review gate fails, the gate approves the
\* file: no feedback stays for the path, retry_count becomes 0, the run goes
\* on to the next stage, and the code gate advances current_file_index by one
\* (the design gate leaves it alone and hands over to the code gate).
C6_GateFailOpen ==
    [][ (pc \in GateStages /\ StageRan /\ response'.raised) =>
          /\ CurrentPath \notin DOMAIN review_feedback'
          /\ retry_count' = 0
          /\ pc = "review_code" =>
                /\ current_file_index' = current_file_index + 1
                /\ last_log'.kind = "qa_verified"
                /\ pc' \in GenStages \cup {"create_deployment"}
          /\ pc = "review_design" =>
                /\ current_file_index' = current_file_index
                /\ last_log'.kind = "design_passed"
                /\ pc' = "review_code" ]_vars

\* C6 witness: the code gate's gateway call failed and the index moved to the next file
C6_Witness ==
    /\ last_log.kind = "qa_verified"
    /\ response = Raised
    /\ current_file_index = 1
    /\ \E i \in 1..Len(generated_files) : generated_files[i].path = last_log.path

\* C7 as stated: a gateway failure in a generation stage aborts the stage:
\* nothing is recorded for the path and no review gate follows.
C7_GenerationFailureAborts ==
    (last_log.kind = "dev" /\ response.raised) =>
        /\ EntriesFor(last_log.path) = {}
        /\ pc \notin GateStages

\* C7 amended: a gateway failure in a generation stage is caught: the
\* placeholder "// Error generating code" is recorded as the content of the
\* path (its only entry) and the run goes on to the review gate of the stage.
C7_GenerationFailureRecorded ==
    [][ (pc \in GenStages /\ StageRan /\ response'.raised) =>
          /\ \E i \in 1..Len(generated_files') :
                /\ generated_files'[i] = [path |-> CurrentPath, content |-> ErrorCode]
                /\ \A j \in 1..Len(generated_files') :
                      generated_files'[j].path = CurrentPath => j = i
          /\ pc' = (IF pc = "frontend_dev" THEN "review_design" ELSE "review_code") ]_vars

\* C7 witness: a failed generation whose placeholder is under review
C7_Witness ==
    /\ last_log.kind = "dev"
    /\ response = Raised
    /\ pc \in GateStages
    /\ \E i \in 1..Len(generated_files) :
          generated_files[i] = [path |-> last_log.path, content |-> ErrorCode]

\* the plan entry the router looked at
Routed == pc = "routed" /\ current_file_index < Len(file_structure)

\* the declared owner, lower-cased, names the frontend team
DeclaresFrontend(entry) == entry.has_owner /\ Contains(S_frontend, Lower(entry.owner))

\* the path ends in one of .html, .css, .js, .tsx
HasFrontendExtension(path) ==
    \E x \in FrontendMarkers :
        /\ Len(path) >= Len(x)
        /\ SubSeq(path, Len(path) - Len(x) + 1, Len(path)) = x

\* one of .html, .css, .js, .tsx occurs somewhere in the path
HasFrontendMarker(path) == \E x \in FrontendMarkers : Contains(x, path)

\* C8 as stated: a declared owner always wins over the extension heuristic:
\* declared "backend" routes to "backend" also for a path with a frontend
\* extension, declared "frontend" routes to "frontend" also for another path.
C8_DeclaredOwnerWins ==
    (Routed /\ CurrentEntry.has_owner) =>
        route = (IF DeclaresFrontend(CurrentEntry) THEN "frontend" ELSE "backend")

\* C8 amended: a declared owner "frontend" always wins (the router returns
\* "frontend" whatever the path), but a declared owner "backend" does not:
\* the router returns "frontend" whenever the path contains .html, .css, .js
\* or .tsx, with or without a declared owner, and "backend" only when the
\* owner does not name the frontend and the path contains none of them.
C8_FrontendWinsEitherWay ==
    Routed =>
        /\ DeclaresFrontend(CurrentEntry) => route = "frontend"
        /\ HasFrontendMarker(CurrentPath) => route = "frontend"
        /\ (~DeclaresFrontend(CurrentEntry) /\ ~HasFrontendMarker(CurrentPath))
              => route = "backend"

\* C8 witness: a file declared "backend" with a frontend extension is routed to the frontend
C8_Witness ==
    /\ Routed
    /\ CurrentEntry = Entry(P_a_html, TRUE, S_backend)
    /\ route = "frontend"

\* C9: the router returns "done" exactly when current_file_index >=
\* len(file_structure); for an entry without owner it returns "frontend"
\* exactly when the path's extension is .html, .css, .js or .tsx and
\* "backend" for every other path; pending feedback does not change the label.
C9_RouterByIndexAndExtension ==
    pc = "routed" =>
        /\ route = "done" <=> current_file_index >= Len(file_structure)
        /\ (Routed /\ ~CurrentEntry.has_owner) =>
              route = (IF HasFrontendExtension(CurrentPath) THEN "frontend" ELSE "backend")
        /\ route = RouteDevelopment(file_structure, current_file_index, EmptyDict)

\* C10: after a gate rejects the file at index i its feedback is stored under
\* the file's path, and the next stage to run is a generation stage for the
\* same index whose prompt is the "fix" instruction carrying that feedback;
\* current_file_index is unchanged and no other file is generated.
C10_RejectionReentersGenerationAsFix ==
    [][ last_log.kind \in RejectionLogs =>
          /\ last_log.path = CurrentPath
          /\ Truthy(Get(review_feedback, CurrentPath))
          /\ pc \in GenStages \cup {"recursion_error"}
          /\ StageRan =>
                /\ pc \in GenStages
                /\ current_file_index' = current_file_index
                /\ prompt' = [kind |-> "fix", file |-> CurrentPath,
                              breakdown |-> review_feedback[CurrentPath]]
                /\ \A i \in 1..Len(generated_files') :
                      generated_files'[i] \in
                          { generated_files[j] : j \in 1..Len(generated_files) }
                      \/ generated_files'[i].path = CurrentPath ]_vars

\* C10 witness: the second file of a plan is regenerated on the code gate's feedback
C10_Witness ==
    /\ last_log.kind = "dev"
    /\ current_file_index = 1
    /\ prompt.kind = "fix"
    /\ prompt.file = CurrentPath
    /\ prompt.breakdown = QAFixPrefix \o <<"o", "k">>

\* C11: in every reachable state, the final one included, no two entries of
\* generated_files have the same path, whatever the plan (the fallback plan
\* and plans naming README.md or Dockerfile included).
C11_GeneratedPathsDistinct ==
    \A i, j \in 1..Len(generated_files) :
        generated_files[i].path = generated_files[j].path => i = j

\* the stages after the router has answered "done"
PostCodingStages == {"create_deployment", "write_docs", "finalize", "END"}

\* C12: once the router has answered "done", and so when finalize is reached,
\* generated_files has an entry for the path of every planned file.
C12_EveryPlannedPathGenerated ==
    pc \in PostCodingStages =>
        \A k \in 1..Len(file_structure) : EntriesFor(file_structure[k].path) # {}

\* C12 witness: finalize is due for a plan of two different files, one of them
\* holding the placeholder of a failed generation
C12_Witness ==
    /\ pc = "finalize"
    /\ Len(file_structure) = 2
    /\ file_structure[1].path # file_structure[2].path
    /\ \A k \in 1..2 : EntriesFor(file_structure[k].path) # {}
    /\ \E i \in 1..Len(generated_files) : generated_files[i].content = ErrorCode

\* C13: once the plan is set, a stage execution leaves current_file_index
\* unchanged or raises it by exactly one, and it raises it only when it is
\* the code gate approving, naturally or forced; no generation stage, no
\* design gate (its forced pass included) and no later stage changes it, so
\* it never decreases.
C13_IndexAdvancesOnlyAtCodeGate ==
    [][ pc \notin {"analyze_requirements", "plan_architecture"} =>
          \/ current_file_index' = current_file_index
          \/ /\ current_file_index' = current_file_index + 1
             /\ pc = "review_code"
             /\ last_log'.kind \in {"qa_verified", "qa_forced"} ]_vars

\* C13 witness: a forced pass of the code gate has moved the index past the
\* second file
C13_Witness ==
    /\ last_log.kind = "qa_forced"
    /\ current_file_index = 2
    /\ Len(file_structure) = 2

C15_PlanNeverEmpty ==
    parsed.done => (~parsed.raised /\ Len(parsed.plan) > 0)

\* the completion has no bracketed span, or the span is not valid JSON
Unparsable(text) == ~HasMatch(text) \/ ~JsonLoads(MatchGroup(text)).ok

\* the fence-stripped completion is a JSON object
IsJsonObject(text) == JsonLoads(Cleaned(text)).ok /\ JsonLoads(Cleaned(text)).type = "dict"

\* C16 as stated: at each site, a completion without a bracketed array, or
\* whose span fails to parse, gives the three-entry default plan and no error.
C16_DefaultIsThreeEntryPlan ==
    (parsed.done /\ Unparsable(completion)) =>
        (~parsed.raised /\ parsed.plan = CrewDefaultPlan)

\* C16 amended: no site raises, and on a completion it cannot parse each
\* site returns its own fixed default plan: crew.py the three-entry plan
\* index.html, styles.css, script.js; graph.py the one-entry plan README.md
\* (owner backend); agents.py, which parses the fence-stripped text as one JSON
\* object, the one-entry plan README.md.
C16_SiteDefaultOnFailure ==
    parsed.done =>
        /\ ~parsed.raised
        /\ (site = "crew" /\ Unparsable(completion)) => parsed.plan = CrewDefaultPlan
        /\ (site = "graph" /\ Unparsable(completion)) => parsed.plan = FallbackPlan
        /\ (site = "tech_lead" /\ ~IsJsonObject(completion)) =>
              parsed.plan = TechLeadDefaultPlan

\* C16 witness: crew.py has returned its default for a bracketed span that is
\* not valid JSON
C16_Witness ==
    /\ parsed.done
    /\ site = "crew"
    /\ HasMatch(completion)
    /\ ~JsonLoads(MatchGroup(completion)).ok
    /\ Len(parsed.plan) = 3
    /\ parsed.plan[1].path = P_index_html

\* the call has ended
SessionOver == qa_pc \in {"returned", "raised"}

\* every attempt of the history failed
AllFailed == \A i \in 1..Len(test_results) : ~test_results[i].success

\* C17: a session makes at most MAX_FIX_ATTEMPTS = 3 attempts: the history
\* never has more than 3 entries, entry i carries attempt number i, an entry
\* once appended is neither changed nor removed, and a session that returns
\* hands back that history with at least one entry.
C17_AtMostThreeOrderedAttempts ==
    [][ /\ Len(test_results') <= MAX_FIX_ATTEMPTS
        /\ \A i \in 1..Len(test_results') : test_results'[i].attempt = i
        /\ Len(test_results') >= Len(test_results)
        /\ SubSeq(test_results', 1, Len(test_results)) = test_results
        /\ qa_pc' = "returned" =>
              /\ Len(test_results') >= 1
              /\ outcome'.test_results = test_results' ]_vars

\* C17 witness: a session has returned after three attempts
C17_Witness ==
    /\ qa_pc = "returned"
    /\ Len(test_results) = MAX_FIX_ATTEMPTS
    /\ test_results[MAX_FIX_ATTEMPTS].attempt = MAX_FIX_ATTEMPTS

\* the paths of the list are pairwise different
DistinctPaths(files) ==
    \A i, j \in 1..Len(files) : files[i].path = files[j].path => i = j

\* C18: when the first test passes, the session returns a history of exactly
\* one TestAttempt, with success = true, no patch was requested, and the
\* files come back with path and content unchanged: each returned file is a
\* file of the input, each input path comes back once, with the content that
\* was on disk when the test ran, and an input without repeated paths comes
\* back as the same list.
C18_FirstPassChangesNothing ==
    (qa_pc = "returned" /\ test_results[1].success) =>
        /\ Len(test_results) = 1
        /\ outcome.test_results = test_results
        /\ patch_requests = 0
        /\ DistinctPaths(outcome.code_files)
        /\ \A i \in 1..Len(outcome.code_files) :
              \E j \in 1..Len(code_files) : code_files[j] = outcome.code_files[i]
        /\ \A j \in 1..Len(code_files) :
              \E i \in 1..Len(outcome.code_files) :
                  outcome.code_files[i].path = code_files[j].path
        /\ AsMapping(outcome.code_files) = tested
        /\ DistinctPaths(code_files) => outcome.code_files = code_files

\* C18 witness: a two-file node project passed its first test and was returned
C18_Witness ==
    /\ qa_pc = "returned"
    /\ project_type = "node"
    /\ Len(test_results) = 1
    /\ test_results[1].success
    /\ Len(outcome.code_files) = 2
    /\ outcome.code_files = code_files

\* C19: when all three attempts fail the call does not raise: it returns the
\* history of the three failed attempts in order and the files exactly as
\* they were on disk when the last attempt ran (nothing is patched after it;
\* at most MaxFixesPerAttempt files were patched after each of the first two).
C19_ExhaustionReturnsLastValidated ==
    ( /\ Len(test_results) = MAX_FIX_ATTEMPTS
      /\ AllFailed
      /\ qa_pc \in {"cleanup", "returned", "raised"} ) =>
        /\ qa_pc # "raised"
        /\ outcome.kind = "return"
        /\ outcome.test_results = test_results
        /\ outcome.code_files = current_files
        /\ AsMapping(outcome.code_files) = tested
        /\ patch_requests <= MaxFixesPerAttempt * (MAX_FIX_ATTEMPTS - 1)

\* C19 witness: three failed attempts with patches in between, then the return
C19_Witness ==
    /\ qa_pc = "returned"
    /\ Len(test_results) = MAX_FIX_ATTEMPTS
    /\ AllFailed
    /\ patch_requests > 0
    /\ \E i \in 1..Len(outcome.code_files) : outcome.code_files[i].content = "patched"

\* C20 as stated: when the call has returned or raised, the directory it
\* created no longer exists.
C20_DirRemovedOnEveryExit ==
    SessionOver => temp_dir # "exists"

\* C20 amended: on every exit path (a pass, three failures, an exception while
\* staging, while testing or while patching) the finally block has called
\* shutil.rmtree before the call returns or raises; the directory is gone
\* unless rmtree itself failed, and that failure is swallowed: the call still
\* returns the value, or raises the exception, the try block ended with.
C20_RemovalAttemptedOnEveryExit ==
    SessionOver =>
        /\ rmtree # "not_called"
        /\ temp_dir = "removed" \/ rmtree = "failed"
        /\ (qa_pc = "returned") <=> (outcome.kind = "return")
        /\ (qa_pc = "raised") <=> (outcome.kind = "raise")

\* C20 witness: the gateway failed while patching and the directory was removed
C20_Witness ==
    /\ qa_pc = "raised"
    /\ patch_requests > 0
    /\ rmtree = "ok"
    /\ temp_dir = "removed"

\* the step of the fix loop in which a patch was requested
PatchRequested == qa_pc = "fix" /\ patch_requests' = patch_requests + 1

\* C21: when the gateway fails during a patch request the fix attempt is
\* aborted: the failing candidate is patched neither in current_files nor
\* under temp_dir, the exception leaves the loop, and validate_and_test ends
\* raising, with no file set and no TestAttempt history returned.
C21_GatewayFailureAborts ==
    [][ /\ (PatchRequested /\ patch_reply'.raised) =>
              /\ current_files' = current_files
              /\ disk' = disk
              /\ test_results' = test_results
              /\ outcome' = Raise("gateway")
              /\ qa_pc' = "cleanup"
        /\ (qa_pc = "cleanup" /\ outcome.cause = "gateway") =>
              /\ qa_pc' = "raised"
              /\ outcome'.kind = "raise"
              /\ outcome'.code_files = <<>>
              /\ outcome'.test_results = <<>> ]_vars

\* a session that ended raising because the gateway failed on a patch
\* request, after a failing attempt whose candidate is still unpatched
C21_Witness ==
    /\ qa_pc = "raised"
    /\ outcome = Raise("gateway")
    /\ patch_reply.raised
    /\ files_to_fix # <<>>
    /\ AllFailed /\ test_results # <<>>
    /\ AsMapping(current_files) = AsMapping(DictOf(code_files))

\* the TestAttempt appended last; executed tells which processes its test ran
Attempted == test_results # <<>>
LastAttempt == test_results[Len(test_results)]

\* str.startswith
StartsWith(s, prefix) == Len(s) >= Len(prefix) /\ SubSeq(s, 1, Len(prefix)) = prefix

\* C22 (as stated): in every project type an install that timed out makes the
\* attempt fail and a start or run that timed out makes it pass.
C22_TimeoutByPhaseEveryType ==
    Attempted =>
        /\ executed.install.kind = "timeout" => ~LastAttempt.success
        /\ executed.run.kind = "timeout" => LastAttempt.success

\* C22 (amended): a start or run that timed out makes the attempt pass in
\* both executable project types; an npm install that timed out makes the
\* attempt fail without npm start being run; a pip install that timed out is
\* ignored and the attempt is decided by the run of the script alone.
C22_TimeoutByPhase ==
    Attempted =>
        /\ executed.run.kind = "timeout" => LastAttempt.success
        /\ (project_type = "node" /\ executed.install.kind = "timeout") =>
              /\ ~LastAttempt.success
              /\ LastAttempt.stderr = S_npm_install_timed_out
              /\ executed.run = NotRun
        /\ (project_type = "python" /\ executed.install.kind = "timeout") =>
              LastAttempt.success = (executed.run.kind \in {"exit0", "timeout"})

\* a script-based project whose dependency install timed out and whose
\* attempt passed all the same
C22_Witness ==
    /\ qa_pc = "returned"
    /\ project_type = "python"
    /\ executed.install.kind = "timeout"
    /\ executed.run.kind = "exit0"
    /\ LastAttempt.success

\* C23: for a script-based project whose script was run, the attempt passes
\* when the run was still going at the timeout exactly as when it exited
\* with 0, and fails when it exited with a non-zero status; the success flag
\* is the same for the timeout and the zero exit.
C23_ScriptTimeoutIsSuccess ==
    (Attempted /\ project_type = "python" /\ executed.run # NotRun) =>
        /\ executed.run.kind \in {"timeout", "exit0"} => LastAttempt.success
        /\ executed.run.kind = "nonzero" => ~LastAttempt.success

\* a script that ran past the timeout: the session returns after one passing attempt
C23_Witness ==
    /\ qa_pc = "returned"
    /\ project_type = "python"
    /\ executed.run.kind = "timeout"
    /\ LastAttempt.success
    /\ LastAttempt.stdout = S_Script_running
    /\ Len(test_results) = 1

\* C24: for a node project, an install that exits non-zero gives a failing
\* attempt tagged as an install failure and the start command is not run; an
\* install that succeeds followed by a start that exits non-zero gives a
\* failing attempt; a start that exits with 0 or is still running at the
\* timeout gives a passing attempt.
C24_NodeStagedOutcome ==
    (Attempted /\ project_type = "node") =>
        /\ executed.install.kind = "nonzero" =>
              /\ ~LastAttempt.success
              /\ StartsWith(LastAttempt.stderr, S_npm_install_failed)
              /\ executed.run = NotRun
        /\ (executed.install.kind = "exit0" /\ executed.run.kind = "nonzero") =>
              ~LastAttempt.success
        /\ executed.run.kind \in {"exit0", "timeout"} =>
              /\ executed.install.kind = "exit0"
              /\ LastAttempt.success

\* an npm install that exited non-zero, recorded as an install failure
C24_Witness ==
    /\ project_type = "node"
    /\ Attempted
    /\ executed.install.kind = "nonzero"
    /\ executed.run = NotRun
    /\ ~LastAttempt.success
    /\ LastAttempt.stderr = S_npm_install_failed \o S_boom

\* the path occurs in the error text, with "/" or with "\" as separator
Named(path) == Contains(path, error_msg) \/ Contains(BackSlashed(path), error_msg)

Selected(path) == \E k \in 1..Len(files_to_fix) : files_to_fix[k] = path

\* the files of current_files before the i-th whose path occurs in the text
NamedBefore(i) == { j \in 1..(i - 1) : Named(current_files[j].path) }

\* C25 (as stated): every path of the file set that occurs in the error text
\* is in the selection, whatever the number of paths that occur.
C25_EveryNamedPathSelected ==
    qa_pc = "identified" =>
        \A i \in 1..Len(current_files) :
            Named(current_files[i].path) => Selected(current_files[i].path)

\* C25 (amended): a path of the file set that occurs in the error text, in
\* either separator convention, is in the selection exactly when fewer than
\* two paths before it in the file set occur in the text too: the first two
\* named paths are selected and the others are dropped.
C25_FirstTwoNamedPathsSelected ==
    qa_pc = "identified" =>
        \A i \in 1..Len(current_files) :
            Named(current_files[i].path) =>
                (Selected(current_files[i].path)
                    <=> Cardinality(NamedBefore(i)) < MaxFixesPerAttempt)

\* a text naming three files of the set: two are selected, the third is not
C25_Witness ==
    /\ qa_pc = "identified"
    /\ Cardinality({ i \in 1..Len(current_files) : Named(current_files[i].path) }) = 3
    /\ files_to_fix = << P_index_html, P_styles_css >>
    /\ ~Selected(P_script_js)

\* a text naming a file with the other separator
C25_BackslashWitness ==
    /\ qa_pc = "identified"
    /\ ~Contains(P_src_app_py, error_msg)
    /\ Contains(BackSlashed(P_src_app_py), error_msg)
    /\ files_to_fix = << P_src_app_py >>

SomeNamed == \E q \in PathSet(current_files) : Named(q)

\* the positions of PriorityFiles whose file is in the file set
PresentPriorities == { k \in 1..Len(PriorityFiles) : PriorityFiles[k] \in PathSet(current_files) }

\* C30: the selection holds at most two paths, each of them a path of the
\* current file set; when some path occurs in the error text only such paths
\* are selected, and the priority list is used only when none occurs: it then
\* gives exactly the first of its files that is in the set, or nothing.
C30_SelectionBoundedAndPriorityLast ==
    qa_pc = "identified" =>
        /\ Len(files_to_fix) <= 2
        /\ \A k \in 1..Len(files_to_fix) : files_to_fix[k] \in PathSet(current_files)
        /\ SomeNamed => \A k \in 1..Len(files_to_fix) : Named(files_to_fix[k])
        /\ (~SomeNamed /\ PresentPriorities = {}) => files_to_fix = <<>>
        /\ (~SomeNamed /\ PresentPriorities # {}) =>
              files_to_fix =
                  << PriorityFiles[CHOOSE k \in PresentPriorities :
                                      \A j \in PresentPriorities : k <= j] >>

\* no path in the text, two priority files in the set: the one listed first
\* in the priority list is selected, though it comes last in the set
C30_Witness ==
    /\ qa_pc = "identified"
    /\ ~SomeNamed
    /\ { P_app_py, P_server_py } \subseteq PathSet(current_files)
    /\ files_to_fix = << P_app_py >>

HasManifest == \E q \in PathSet(code_files) : Contains(P_package_json, q)
HasScript == \E q \in PathSet(code_files) : EndsWith(q, S_dot_py)
HasMarkup == \E q \in PathSet(code_files) : EndsWith(q, S_dot_html)

\* C26: the project type depends on the set of paths only, by a fixed
\* priority (a manifest gives node, else a script file gives python, else a
\* markup file gives html, else unknown); it is computed once, so every
\* TestAttempt of the session carries that same project_type.
C26_TypeByPriorityOncePerSession ==
    qa_pc # "start" =>
        /\ HasManifest => project_type = "node"
        /\ (~HasManifest /\ HasScript) => project_type = "python"
        /\ (~HasManifest /\ ~HasScript /\ HasMarkup) => project_type = "html"
        /\ (~HasManifest /\ ~HasScript /\ ~HasMarkup) => project_type = "unknown"
        /\ \A i \in 1..Len(test_results) : test_results[i].project_type = project_type

\* a set with a manifest, a script and a markup file is a node project, in
\* the second attempt as in the first, after a file was patched
C26_Witness ==
    /\ HasManifest /\ HasScript /\ HasMarkup
    /\ Len(test_results) >= 2
    /\ patch_requests >= 1
    /\ \A i \in 1..Len(test_results) : test_results[i].project_type = "node"

\* C27: a session on an html or unknown project runs no external process
\* and requests no patch, and when it returns it returns exactly one
\* TestAttempt, with success = true, and the file set as it was given (one
\* file per path, as the dict built from the input holds them).
C27_StaticProjectPassesUntested ==
    (qa_pc # "start" /\ project_type \in {"html", "unknown"}) =>
        /\ executed = NothingExecuted
        /\ patch_requests = 0
        /\ qa_pc # "fix"
        /\ Len(test_results) <= 1
        /\ qa_pc = "returned" =>
              /\ Len(outcome.test_results) = 1
              /\ outcome.test_results[1].success
              /\ outcome.test_results[1].attempt = 1
              /\ outcome.code_files = DictOf(code_files)
              /\ DistinctPaths(code_files) => outcome.code_files = code_files

\* a session on a markup-only file set that has returned
C27_Witness ==
    /\ qa_pc = "returned"
    /\ project_type = "html"
    /\ code_files # <<>>
    /\ outcome.code_files = code_files
    /\ Len(outcome.test_results) = 1
    /\ outcome.test_results[1].stdout = S_No_executable_test_available

\* the process exited with a non-zero status or could not be started
ExecutionError(ending) == ending.kind \in {"nonzero", "error"}

\* the step of the loop in which a test was run and its TestAttempt appended
TestRan == qa_pc = "test" /\ Len(test_results') = Len(test_results) + 1

\* the attempt just appended fails with the output of the process and the
\* loop goes on to the patching of the candidates
FailsWith(ending) ==
    /\ ~LastAttempt'.success
    /\ EndsWith(LastAttempt'.stderr, ending.stderr)
    /\ ending.kind = "nonzero" => LastAttempt'.stdout = ending.stdout
    /\ error_msg' = Or(LastAttempt'.stderr, LastAttempt'.stdout)
    /\ outcome' = NoOutcome
    /\ qa_pc' = "fix"

\* C28 (as stated): every execution error of an install, start or run
\* process is recorded as a failing TestAttempt with the captured output and
\* leads to the fix step, and the call does not raise.
C28_EveryExecutionErrorRecorded ==
    [][ TestRan =>
          /\ ExecutionError(executed'.install) => FailsWith(executed'.install)
          /\ ExecutionError(executed'.run) => FailsWith(executed'.run) ]_vars

\* C28 (amended): an execution error of npm install, of npm start or of the
\* run of the script is recorded as a failing TestAttempt with the captured
\* output and leads to the fix step; an execution error of the pip install
\* of a script-based project is swallowed, the attempt being decided by the
\* run of the script; in no case does the test step raise.
C28_ExecutionErrorsRecordedNotRaised ==
    [][ TestRan =>
          /\ outcome'.kind # "raise"
          /\ (project_type = "node" /\ ExecutionError(executed'.install)) =>
                FailsWith(executed'.install)
          /\ ExecutionError(executed'.run) => FailsWith(executed'.run)
          /\ (project_type = "python" /\ ExecutionError(executed'.install)) =>
                LastAttempt'.success = (executed'.run.kind \in {"exit0", "timeout"}) ]_vars

\* a script that could not be started: a failing attempt holding the text of
\* the exception, and the loop is at the patching of main.py
C28_Witness ==
    /\ qa_pc = "fix"
    /\ project_type = "python"
    /\ executed.run = Ended("error", <<>>, S_boom)
    /\ ~LastAttempt.success
    /\ LastAttempt.stderr = S_boom
    /\ files_to_fix = << P_main_py >>
    /\ outcome = NoOutcome

\* C29: the loop stops at the first passing test: in the history, and so in
\* any returned history, every TestAttempt but the last has success = false,
\* and once the last TestAttempt has passed no test is run, no process is
\* executed and no patch is requested any more.
C29_StopsAtFirstPass ==
    [][ /\ \A i \in 1..(Len(test_results') - 1) : ~test_results'[i].success
        /\ qa_pc' = "returned" => outcome'.test_results = test_results'
        /\ (Attempted /\ LastAttempt.success) =>
              /\ test_results' = test_results
              /\ executed' = executed
              /\ patch_requests' = patch_requests
              /\ current_files' = current_files
              /\ qa_pc' \in {"cleanup", "returned"} ]_vars

\* a session that returned after two failing attempts and a passing third one
C29_Witness ==
    /\ qa_pc = "returned"
    /\ Len(outcome.test_results) = 3
    /\ ~outcome.test_results[1].success
    /\ ~outcome.test_results[2].success
    /\ outcome.test_results[3].success
    /\ patch_requests >= 2

\* the entries of a list of generated files for the paths other than path
OtherEntries(files, path) == SelectSeq(files, LAMBDA f : f.path # path)

\* C31: a generation stage run for the file at current_file_index leaves
\* exactly one entry for that file's path in generated_files (the code of the
\* response, or the placeholder when the gateway call failed; an earlier
\* entry for the path is gone), leaves the entries of all other paths as they
\* were, and leaves current_file_index, retry_count and review_feedback
\* unchanged.
C31_GenerationReplacesOneEntry ==
    [][ (pc \in GenStages /\ StageRan) =>
          /\ Cardinality({ i \in 1..Len(generated_files') :
                              generated_files'[i].path = CurrentPath }) = 1
          /\ generated_files'[Len(generated_files')] =
                [path |-> CurrentPath, content |-> CodeOf(response')]
          /\ OtherEntries(generated_files', CurrentPath) =
                OtherEntries(generated_files, CurrentPath)
          /\ current_file_index' = current_file_index
          /\ retry_count' = retry_count
          /\ review_feedback' = review_feedback ]_vars

\* the second file of a plan was generated again after a rejection and the
\* gateway call failed: one placeholder entry for it, the first file's entry kept
C31_Witness ==
    /\ last_log.kind = "dev"
    /\ prompt.kind = "fix"
    /\ response.raised
    /\ current_file_index = 1
    /\ Len(generated_files) = 2
    /\ generated_files[1].path = file_structure[1].path
    /\ generated_files[2] = [path |-> file_structure[2].path, content |-> ErrorCode]
    /\ file_structure[1].path # file_structure[2].path

\* the current file is one the router sends to the backend specialist
BackendFile == current_file_index < Len(file_structure) /\ ~IsFrontend(CurrentEntry)

\* C32: for a file routed to the backend specialist every entry of the code
\* gate but the last ends in a rejection that raises retry_count by one, so
\* with at most 3 rejections the gate is entered, and the file generated, at
\* most 4 times; the entry that finds retry_count = 3 asks nothing of the
\* gateway, logs the override and advances current_file_index.
C32_BackendFileAtMostFourRounds ==
    /\ [](BackendFile => (rejections <= 3 /\ retry_count = rejections))
    /\ [][ (BackendFile /\ StageRan) =>
             /\ pc \notin {"frontend_dev", "review_design"}
             /\ pc = "backend_dev" =>
                   (pc' = "review_code" /\ rejections' = rejections)
             /\ pc = "review_code" =>
                   \/ /\ last_log'.kind = "qa_rejected"
                      /\ retry_count < 3
                      /\ rejections' = rejections + 1
                      /\ current_file_index' = current_file_index
                      /\ pc' = "backend_dev"
                   \/ /\ last_log'.kind \in {"qa_verified", "qa_forced"}
                      /\ current_file_index' = current_file_index + 1
             /\ (pc = "review_code" /\ retry_count = 3) =>
                   /\ response' = NoResponse
                   /\ last_log' = Log("qa_forced", CurrentPath)
                   /\ current_file_index' = current_file_index + 1 ]_vars

\* a backend file was passed by force on the fourth entry of the code gate
C32_Witness ==
    /\ last_log.kind = "qa_forced"
    /\ response = NoResponse
    /\ current_file_index >= 1
    /\ ~IsFrontend(file_structure[current_file_index])
    /\ last_log.path = file_structure[current_file_index].path
    /\ retry_count = 0

\* the plan names no path twice
DistinctPlan ==
    \A i, j \in 1..Len(file_structure) :
        file_structure[i].path = file_structure[j].path => i = j

\* the paths review_feedback may hold an entry for: the current file's
CurrentPaths == IF current_file_index < Len(file_structure) THEN {CurrentPath} ELSE {}

\* C33: in every reachable state of a run over a plan with pairwise distinct
\* paths, retry_count is between 0 and 3, review_feedback holds an entry for
\* no path but the current file's, and retry_count > 0 exactly when it holds
\* an entry for the current file's path.
C33_RetryCountMirrorsFeedback ==
    DistinctPlan =>
        /\ retry_count \in 0..3
        /\ DOMAIN review_feedback \subseteq CurrentPaths
        /\ (retry_count > 0) <=> (DOMAIN review_feedback = CurrentPaths /\ CurrentPaths # {})

\* the second file of a plan has been rejected twice
C33_Witness ==
    /\ DistinctPlan
    /\ Len(file_structure) = 2
    /\ current_file_index = 1
    /\ retry_count = 2
    /\ DOMAIN review_feedback = {file_structure[2].path}
    /\ Truthy(review_feedback[file_structure[2].path])

\* the stages that index file_structure[current_file_index]
IndexingStages == GenStages \cup GateStages

\* C34: in every reachable state 0 <= current_file_index <=
\* len(file_structure); a generation stage or a review gate is due only when
\* current_file_index < len(file_structure); and with an empty plan no
\* generation or review stage is ever due or has run: the run goes from
\* define_ux to create_deployment, write_docs and finalize.
C34_IndexWithinPlan ==
    /\ current_file_index \in 0..Len(file_structure)
    /\ pc \in IndexingStages => current_file_index < Len(file_structure)
    /\ (file_structure = <<>> /\ pc # "recursion_error") =>
          /\ pc \in {"analyze_requirements", "plan_architecture", "define_ux"}
                    \cup PostCodingStages
          /\ last_log.kind \notin {"dev"} \cup ApprovalLogs \cup RejectionLogs
          /\ \A i \in 1..Len(generated_files) :
                generated_files[i].path \in {<<"Dockerfile">>, P_README_md}

\* a run over an empty plan has completed without a generation or a review
C34_Witness ==
    /\ file_structure = <<>>
    /\ architecture = "response"
    /\ pc = "END"
    /\ status = "completed"
    /\ route = "done"
    /\ Len(generated_files) = 2

StagesNeeded ==
    6 + 3 * Cardinality({ i \in 1..Len(file_structure) : IsFrontend(file_structure[i]) })
      + 2 * Cardinality({ i \in 1..Len(file_structure) : ~IsFrontend(file_structure[i]) })

FailedWithAttemptsLeft ==
    /\ qa_pc = "test"
    /\ qa_pc' = "fix"
    /\ attempt < MAX_FIX_ATTEMPTS - 1

\* C36: whenever an attempt fails and attempts remain, at least one file is
\* selected for patching, so that a patch request is made (and the file
\* overwritten in memory and on disk) before the next attempt starts; the
\* next attempt never tests files that no patch request touched.
C36_FailureAlwaysPatches ==
    [][ /\ FailedWithAttemptsLeft => files_to_fix' # <<>>
        /\ (qa_pc = "fix" /\ qa_pc' = "test") => patch_requests >= attempt' ]_vars

\* the content the dict holds for a path
ContentOf(d, path) == d[ItemOf(d, path)].content

\* C37: the fix loop adds, removes and renames no file: from staging on the
\* dict has the paths of the input, and so has the returned file set; the
\* content of a file changes only in a patching step of a failing attempt,
\* for the candidate selected next; at most 2 candidates are selected per
\* failing attempt and at most 4 patch requests are made in a session.
C37_FixLoopKeepsPathsAndPatchesCandidates ==
    /\ [](/\ Len(files_to_fix) <= 2
          /\ patch_requests <= 4
          /\ qa_pc \in {"test", "fix"} => PathSet(current_files) = PathSet(code_files)
          /\ outcome.kind = "return" =>
                /\ PathSet(outcome.code_files) = PathSet(code_files)
                /\ \A i \in 1..Len(outcome.code_files) :
                      LET f == outcome.code_files[i] IN
                      f.content # ContentOf(DictOf(code_files), f.path) =>
                          (patch_requests >= 1 /\ ~test_results[1].success))
    /\ [][ (qa_pc = "test" \/ qa_pc = "fix") =>
             /\ PathSet(current_files') = PathSet(current_files)
             /\ \A q \in PathSet(current_files) :
                   ContentOf(current_files', q) # ContentOf(current_files, q) =>
                       /\ qa_pc = "fix"
                       /\ files_to_fix # <<>> /\ q = Head(files_to_fix)
                       /\ ~LastAttempt.success
                       /\ patch_requests' = patch_requests + 1
             /\ patch_requests' # patch_requests =>
                   (qa_pc = "fix" /\ patch_requests' <= 2 * Len(test_results)) ]_vars

\* a session with four patch requests, two after each of the first two failing
\* attempts, returned both files of the input patched
C37_Witness ==
    /\ qa_pc = "returned"
    /\ patch_requests = 4
    /\ Len(test_results) = 3
    /\ PathSet(outcome.code_files) = {P_main_py, P_util_py}
    /\ PathSet(code_files) = {P_main_py, P_util_py}
    /\ \A i \in 1..Len(outcome.code_files) : outcome.code_files[i].content = "patched"

\* C38: for a project detected as python, a TestAttempt with success = true
\* means that a script was run and either exited with 0 or was still running
\* at the timeout, also when every script file lies in a subdirectory.
C38_PythonSuccessMeansScriptRan ==
    (project_type = "python" /\ Attempted /\ LastAttempt.success) =>
        executed.run.kind \in {"exit0", "timeout"}

\* C39: every file written while materializing or patching lies inside the
\* working directory of the session, whatever the generated path is
\* (absolute paths and paths with ".." segments included).
C39_EveryWriteInsideTempDir ==
    \A q \in DOMAIN disk : InTempDir(q)

====
